---- MODULE Spec2Model ----
(***************************************************************************)
(* A model of the RISC-V SimpleOS kernel: the free-list page allocator,    *)
(* the trap pipeline, the two cooperatively scheduled processes, the       *)
(* system-call dispatcher and the RAM filesystem.                          *)
(*                                                                         *)
(* Addresses are byte addresses.  TLC's integers are 32 bits wide, so the  *)
(* RAM base is scaled down from 0x80000000 and the RAM size from 128 MB to *)
(* 32 pages, of which the kernel image leaves only some free;              *)
(* PAGE_SIZE and every offset inside a page are the source's.              *)
(***************************************************************************)
EXTENDS Integers, Sequences, FiniteSets, TLC

\* ------------------------------------------------------------------ bounds

\* The pages the kernel image leaves free when the allocator is exercised by
\* an arbitrary caller (the source: 32767), or one fewer.
AllocPages == 3

\* The largest count given to alloc_pages.
MaxCount == 2

\* The pages the kernel image leaves free when the kernel boots.
BootPages == 4

\* The ecall instructions the two processes execute in a run.
MaxEcalls == 2

\* The pages the kernel image leaves free when the filesystem is exercised:
\* the two stacks and a page for each of two files.
FsPages == 4

\* The filesystem calls the two processes make in a run.
FsMaxCalls == 3

\* The pages the kernel image leaves free when the inode table is filled: the
\* two stacks, a page for each of the 16 inodes.
CapPages == 18

\* The calls of fs_open made when the inode table is filled.
CapMaxCalls == 18

\* The pages the kernel image leaves free when files outnumber the pages: the
\* two stacks and the page of one file.
OomPages == 3

\* ------------------------------------------------------- program constants

PAGE_SIZE == 4096

\* #define KERNEL_BASE 0x80000000, scaled to fit TLC's integers.
KERNEL_BASE == 16 * PAGE_SIZE

\* #define RAM_SIZE (128 * 1024 * 1024), scaled to 32 pages.
RAM_SIZE == 32 * PAGE_SIZE

\* #define NULL ((void *)0)
NULL == 0
\* A mutant of align_up: an aligned value is moved up to the next boundary
\* too.
align_up_past_aligned(value, align) == (value \div align + 1) * align

\* #define align_up(value, align) (((value) + (align) - 1) / (align) * (align))
align_up(value, align) == ((value + align - 1) \div align) * align

\* F of the value of e: e is evaluated once, however often F uses it.
Bind(e, F(_)) == CHOOSE r \in {F(x) : x \in {e}} : TRUE

\* ------------------------------------------------------------------ memory
\* RAM is an array of bytes.  A page's 4096 bytes are kept as a background
\* byte (fill) and the bytes that differ from it (d: offset -> byte), which
\* is the same array in a form that stays small.

EmptyFn == [x \in {} |-> 0]

\* The page holding address a, and a's offset in it.
PageOf(a) == a - (a % PAGE_SIZE)

OffsetOf(a) == a % PAGE_SIZE

\* Every page of RAM from address lo (page aligned) up to hi.
PagesBetween(lo, hi) == {a \in lo..(hi - 1) : a % PAGE_SIZE = 0 /\ a + PAGE_SIZE <= hi}

\* A page whose every byte is b.
FilledPage(b) == [fill |-> b, d |-> EmptyFn]

\* p[i] for a page content p and an offset i.
PageByte(p, i) == IF i \in DOMAIN p.d THEN p.d[i] ELSE p.fill

\* uint8_t load: *(uint8_t *)a
LoadByte(m, a) == PageByte(m[PageOf(a)], OffsetOf(a))

\* The page content p with the bytes of w (offset -> byte) stored.
PageStore(p, w) ==
    LET keep == {i \in (DOMAIN p.d) \cup (DOMAIN w) :
                    (IF i \in DOMAIN w THEN w[i] ELSE p.d[i]) # p.fill}
    IN  [fill |-> p.fill,
         d    |-> [i \in keep |-> IF i \in DOMAIN w THEN w[i] ELSE p.d[i]]]

\* Memory m with the bytes of w (address -> byte) stored; every address of w
\* is an address of RAM.
StoreBytes(m, w) ==
    Bind({PageOf(a) : a \in DOMAIN w}, LAMBDA touched :
        [p \in DOMAIN m |->
            IF p \notin touched THEN m[p]
            ELSE PageStore(m[p], [i \in {OffsetOf(a) : a \in {b \in DOMAIN w : PageOf(b) = p}}
                                     |-> w[p + i]])])

\* Byte i (0 = least significant) of the 64-bit two's complement word v; the
\* model's words lie in -2^31 .. 2^31 - 1, so bytes 4..7 are the sign.
WordByte(v, i) ==
    CASE i = 0 -> v % 256
      [] i = 1 -> (v \div 256) % 256
      [] i = 2 -> (v \div 65536) % 256
      [] i = 3 -> (v \div 16777216) % 256
      [] OTHER -> IF v < 0 THEN 255 ELSE 0

\* The bytes a little-endian sd of word v to address a stores.
WordBytes(a, v) == [x \in a..(a + 7) |-> WordByte(v, x - a)]

\* uint64_t store: *(uint64_t *)a = v
StoreWord(m, a, v) == StoreBytes(m, WordBytes(a, v))

\* Memory m with the 64-bit words of ws (address -> word) stored; the
\* addresses are multiples of 8.
StoreWords(m, ws) ==
    StoreBytes(m, [x \in UNION {a..(a + 7) : a \in DOMAIN ws} |->
                      WordByte(ws[x - (x % 8)], x % 8)])

\* What a load gives for a word the model's integers cannot hold (its upper
\* half is not the sign of its lower half).
BadWord == 0 - 1000000007

\* uint64_t load: *(uint64_t *)a
LoadWord(m, a) ==
    Bind([i \in 0..7 |-> LoadByte(m, a + i)], LAMBDA b :
        LET low3 == b[0] + 256 * b[1] + 65536 * b[2]
        IN  IF b[3] < 128 /\ \A i \in 4..7 : b[i] = 0 THEN low3 + 16777216 * b[3]
            ELSE IF b[3] >= 128 /\ \A i \in 4..7 : b[i] = 255
            THEN low3 + 16777216 * (b[3] - 256)
            ELSE BadWord)

\* for (int i = 0; i < PAGE_SIZE; i++) p[i] = 0;
ZeroPage(m, page) == [m EXCEPT ![page] = FilledPage(0)]

\* Whether all 4096 bytes of a page content are b.
AllBytes(p, b) ==
    IF p.fill = b THEN \A i \in DOMAIN p.d : p.d[i] = b
    ELSE \A i \in 0..(PAGE_SIZE - 1) : PageByte(p, i) = b

\* ------------------------------------------------------- the page allocator
\* The allocator's globals as one record:
\*   free_page_list, total_pages, free_pages (static globals) and mem (RAM).

\* pages_init: the free list over every whole page between the page-aligned
\* kernel end and the RAM top.  m0 is RAM as the boot finds it.  The loop
\* bound total_pages - 1 is unsigned: with total_pages = 0 it wraps and the
\* first link is stored at ram_end, outside RAM (fault).
pages_init(kernel_end, m0) ==
    LET free_mem_start == align_up(kernel_end, PAGE_SIZE)
        ram_end == KERNEL_BASE + RAM_SIZE
        total   == (ram_end - free_mem_start) \div PAGE_SIZE
        \* current->next = next, for i = 0 .. total_pages - 2
        links   == [i \in 0..(total - 2) |-> free_mem_start + (i + 1) * PAGE_SIZE]
        RECURSIVE Link(_, _)
        Link(m, i) ==
            IF i > total - 2 THEN m
            ELSE Link(StoreWord(m, free_mem_start + i * PAGE_SIZE, links[i]), i + 1)
        last    == free_mem_start + (total - 1) * PAGE_SIZE
    IN  IF total = 0
        THEN [free_page_list |-> free_mem_start, total_pages |-> 0,
              free_pages |-> 0, mem |-> m0, fault |-> TRUE]
        ELSE [free_page_list |-> free_mem_start, total_pages |-> total,
              free_pages |-> total,
              mem |-> StoreWord(Link(m0, 0), last, NULL), fault |-> FALSE]

\* A mutant of alloc_page: the page is returned without the zero fill.
alloc_page_no_zero(a) ==
    IF a.free_page_list = NULL
    THEN [a |-> a, ret |-> 0, out |-> "oom"]
    ELSE [a   |-> [a EXCEPT !.free_page_list = LoadWord(a.mem, a.free_page_list),
                            !.free_pages = a.free_pages - 1],
          ret |-> a.free_page_list, out |-> "none"]

\* A mutant of alloc_page: the head is returned but stays on the list.
alloc_page_no_pop(a) ==
    IF a.free_page_list = NULL
    THEN [a |-> a, ret |-> 0, out |-> "oom"]
    ELSE [a   |-> [a EXCEPT !.free_pages = a.free_pages - 1,
                            !.mem = ZeroPage(a.mem, a.free_page_list)],
          ret |-> a.free_page_list, out |-> "none"]

\* A mutant of alloc_page: the counter is decremented before the empty check.
alloc_page_count_first(a) ==
    IF a.free_page_list = NULL
    THEN [a |-> [a EXCEPT !.free_pages = a.free_pages - 1], ret |-> 0, out |-> "oom"]
    ELSE [a   |-> [a EXCEPT !.free_page_list = LoadWord(a.mem, a.free_page_list),
                            !.free_pages = a.free_pages - 1,
                            !.mem = ZeroPage(a.mem, a.free_page_list)],
          ret |-> a.free_page_list, out |-> "none"]

\* uint64_t alloc_page(void): the allocator after the call, the value
\* returned and the diagnostic printed.
alloc_page(a) ==
    IF a.free_page_list = NULL
    THEN [a |-> a, ret |-> 0, out |-> "oom"]
    ELSE LET page == a.free_page_list
             next == LoadWord(a.mem, page)
         IN  [a   |-> [a EXCEPT !.free_page_list = next,
                                !.free_pages = a.free_pages - 1,
                                !.mem = ZeroPage(a.mem, page)],
              ret |-> page, out |-> "none"]

\* A mutant of free_page: no check for the null address.
free_page_no_check(a, page_addr) ==
    [a   |-> [a EXCEPT !.free_page_list = page_addr,
                       !.free_pages = a.free_pages + 1,
                       !.mem = IF page_addr \in DOMAIN a.mem
                               THEN StoreWord(a.mem, page_addr, a.free_page_list)
                               ELSE a.mem],
     out |-> "none"]

\* A mutant of free_page: the page is appended at the tail of the list.
free_page_at_tail(a, page_addr) ==
    LET RECURSIVE LastOf(_)
        LastOf(p) == IF LoadWord(a.mem, p) = NULL THEN p ELSE LastOf(LoadWord(a.mem, p))
    IN  IF page_addr = 0 THEN [a |-> a, out |-> "null_free"]
        ELSE IF a.free_page_list = NULL
        THEN [a |-> [a EXCEPT !.free_page_list = page_addr,
                              !.free_pages = a.free_pages + 1,
                              !.mem = StoreWord(a.mem, page_addr, NULL)],
              out |-> "none"]
        ELSE [a |-> [a EXCEPT !.free_pages = a.free_pages + 1,
                              !.mem = StoreWord(StoreWord(a.mem, page_addr, NULL),
                                                LastOf(a.free_page_list), page_addr)],
              out |-> "none"]

\* A mutant of free_page: the page is linked in and the counter is left as
\* it was.
free_page_no_count(a, page_addr) ==
    IF page_addr = 0
    THEN [a |-> a, out |-> "null_free"]
    ELSE [a   |-> [a EXCEPT !.mem = StoreWord(a.mem, page_addr, a.free_page_list),
                            !.free_page_list = page_addr],
          out |-> "none"]

\* void free_page(uint64_t page_addr)
free_page(a, page_addr) ==
    IF page_addr = 0
    THEN [a |-> a, out |-> "null_free"]
    ELSE [a   |-> [a EXCEPT !.mem = StoreWord(a.mem, page_addr, a.free_page_list),
                            !.free_page_list = page_addr,
                            !.free_pages = a.free_pages + 1],
          out |-> "none"]
\* A mutant of alloc_pages: a count above 1 takes two pages off the list and
\* returns the second.
alloc_pages_takes_two(a, count) ==
    IF count = 1 THEN alloc_page(a)
    ELSE [alloc_page(alloc_page(a).a) EXCEPT !.out = IF @ = "none" THEN "warn" ELSE "warn_oom"]

\* uint64_t alloc_pages(uint64_t count)
alloc_pages(a, count) ==
    IF count = 1 THEN alloc_page(a)
    ELSE [alloc_page(a) EXCEPT !.out = IF @ = "none" THEN "warn" ELSE "warn_oom"]

\* The bytes of *test_ptr = 0xDEADBEEF at address p: the 64-bit word, little
\* endian.
TestValue(p) ==
    [x \in p..(p + 7) |->
        CASE x - p = 0 -> 239 [] x - p = 1 -> 190 [] x - p = 2 -> 173 [] x - p = 3 -> 222
          [] OTHER -> 0]

\* A mutant of mem_test: the pages are freed in the order they were
\* allocated, page 1 first.
mem_test_frees_in_order(a) ==
    Bind(alloc_page(a), LAMBDA r1 :
        IF r1.ret = 0 THEN [a |-> r1.a, ret |-> 0, out |-> "fail_first"]
        ELSE Bind(alloc_page([r1.a EXCEPT !.mem = StoreBytes(r1.a.mem, TestValue(r1.ret))]),
             LAMBDA r2 :
                 IF r2.ret = 0 THEN [a |-> r2.a, ret |-> r1.ret, out |-> "fail_second"]
                 ELSE [a   |-> free_page(free_page(r2.a, r1.ret).a, r2.ret).a,
                       ret |-> r1.ret,
                       out |-> IF \A x \in r1.ret..(r1.ret + 7) :
                                      LoadByte(r2.a.mem, x) = TestValue(r1.ret)[x]
                               THEN "pass" ELSE "corrupted"]))

\* void mem_test(void): the allocator after the call, the address of page 1
\* and the line printed last before the frees: FAIL of the first or of the
\* second allocation (the function returns), PASS or FAIL of the comparison.
mem_test(a) ==
    Bind(alloc_page(a), LAMBDA r1 :
        IF r1.ret = 0 THEN [a |-> r1.a, ret |-> 0, out |-> "fail_first"]
        ELSE Bind(alloc_page([r1.a EXCEPT !.mem = StoreBytes(r1.a.mem, TestValue(r1.ret))]),
             LAMBDA r2 :
                 IF r2.ret = 0 THEN [a |-> r2.a, ret |-> r1.ret, out |-> "fail_second"]
                 ELSE [a   |-> free_page(free_page(r2.a, r2.ret).a, r1.ret).a,
                       ret |-> r1.ret,
                       out |-> IF \A x \in r1.ret..(r1.ret + 7) :
                                      LoadByte(r2.a.mem, x) = TestValue(r1.ret)[x]
                               THEN "pass" ELSE "corrupted"]))

\* The pages on the free list from p on, in list order.  A list that does
\* not end within n links is cut there.
RECURSIVE ListFrom(_, _, _)
ListFrom(m, p, n) ==
    IF p = NULL \/ n = 0 \/ p \notin DOMAIN m THEN <<>>
    ELSE Bind(LoadWord(m, p), LAMBDA next : <<p>> \o ListFrom(m, next, n - 1))

\* --------------------------------------------------- registers and processes
\* The kernel's state as one record k: the allocator's globals and RAM
\* (free_page_list, total_pages, free_pages, mem), processes and
\* current_process, inode_table, the CSRs mtvec, mepc and mcause, the
\* registers regs (pc, sp, ra, s0..s11 as s, a0, a1, a2, a7), halted (the
\* hart is in panic's wfi loop) and uart (what the last step printed).

MAX_PROCESSES == 2

Procs == 0..(MAX_PROCESSES - 1)

\* ra and s0..s11: the registers switch_context saves.
SRegs == 0..11

SWITCH_FRAME == 104

\* trap_vector: addi sp, sp, -256
TRAP_FRAME == 256

\* The offsets of TrapFrame's fields (ra, sp, gp, tp, t0-t2, s0, s1, a0-a7,
\* s2-s11, t3-t6), eight bytes each, for the registers the model keeps.
TfOff(r) ==
    CASE r = "ra" -> 0
      [] r = "sp" -> 8
      [] r = "a0" -> 72
      [] r = "a1" -> 80
      [] r = "a2" -> 88
      [] r = "a7" -> 128

\* s0, s1 at 56, 64; s2..s11 from 136.
TfOffS(i) == IF i < 2 THEN 56 + 8 * i ELSE 136 + 8 * (i - 2)

\* Addresses in the kernel's text: the trap vector, the instruction of
\* yield() that follows its call of switch_context, and the entry functions
\* process_a and process_b.
TRAP_VECTOR == KERNEL_BASE + 64

RA_YIELD == KERNEL_BASE + 128

Entry(p) == KERNEL_BASE + 1024 + 256 * p

\* The stack the compiled trap_handler, syscall_handler and yield use below
\* the trap frame (a multiple of 16, as the ABI asks), and where in it
\* trap_handler keeps its locals epc, code and is_interrupt.
CALL_FRAMES == 4 * 16

LocalEpc(frame) == frame - 8

LocalCode(frame) == frame - 16

LocalIsInterrupt(frame) == frame - 24

\* Whether the 8 bytes at a lie in RAM.
InRam(m, a) == PageOf(a) \in DOMAIN m /\ PageOf(a + 7) \in DOMAIN m
\* A mutant of setup_process_stack: the frame is put 104 bytes above the
\* bottom of the stack page (the sp 0x80007068 of the timeline's example).
setup_process_stack_page_bottom(k, proc_id, entry_point) ==
    LET stack_top == k.processes[proc_id].stack_addr + 13 * 8
    IN  [k EXCEPT !.processes[proc_id].sp = stack_top,
                  !.mem = StoreWords(k.mem,
                              [a \in {stack_top + 8 * i : i \in 0..12} |->
                                  IF a = stack_top THEN entry_point ELSE 0])]

\* void setup_process_stack(int proc_id, void (*entry_point)(void))
setup_process_stack(k, proc_id, entry_point) ==
    LET stack_top == k.processes[proc_id].stack_addr + PAGE_SIZE - 13 * 8
    IN  [k EXCEPT !.processes[proc_id].sp = stack_top,
                  !.mem = StoreWords(k.mem,
                              [a \in {stack_top + 8 * i : i \in 0..12} |->
                                  IF a = stack_top THEN entry_point ELSE 0])]

\* processes_init: a stack page and a forged frame for process A and B.
processes_init(k) ==
    LET Create(k0, p) ==
            Bind(alloc_page(k0), LAMBDA r :
            Bind([r.a EXCEPT !.processes[p] = [id |-> p, sp |-> 0, stack_addr |-> r.ret]],
                 LAMBDA k1 : setup_process_stack(k1, p, Entry(p))))
    IN  Bind(Create(k, 0), LAMBDA k1 : Create(k1, 1))

\* The restore half of switch_context, which start_scheduler shares: load
\* the stack pointer saved at processes[next].sp, pop ra and s0..s11, ret.
restore_context(k, next) ==
    LET sp == k.processes[next].sp
        ra == IF InRam(k.mem, sp) /\ InRam(k.mem, sp + SWITCH_FRAME - 8)
              THEN LoadWord(k.mem, sp) ELSE BadWord
    IN  IF ra = BadWord THEN [k EXCEPT !.regs.pc = BadWord]
        ELSE
        [k EXCEPT !.regs.ra = ra,
                  !.regs.s  = [i \in SRegs |-> LoadWord(k.mem, sp + 8 + 8 * i)],
                  !.regs.sp = sp + SWITCH_FRAME,
                  !.regs.pc = ra]

\* switch_context with "ld sp, 0(a0)": the stack pointer is loaded back from
\* the PCB of the caller.
switch_context_loads_a0(k, current, next) ==
    LET sp == k.regs.sp - SWITCH_FRAME
        frame == [a \in {sp + 8 * i : i \in 0..12} |->
                     IF a = sp THEN k.regs.ra ELSE k.regs.s[((a - sp) \div 8) - 1]]
    IN  Bind([k EXCEPT !.mem = StoreWords(k.mem, frame),
                       !.regs.sp = sp,
                       !.processes[current].sp = sp],
        LAMBDA k2 : restore_context(k2, current))

\* A mutant of switch_context: the stack pointer is saved before the frame
\* is pushed, and not again after.
switch_context_sp_early(k, current, next) ==
    LET sp == k.regs.sp - SWITCH_FRAME
        frame == [a \in {sp + 8 * i : i \in 0..12} |->
                     IF a = sp THEN k.regs.ra ELSE k.regs.s[((a - sp) \div 8) - 1]]
    IN  Bind([k EXCEPT !.processes[current].sp = k.regs.sp,
                       !.mem = StoreWords(k.mem, frame),
                       !.regs.sp = sp],
             LAMBDA k2 : restore_context(k2, next))
\* A mutant of switch_context: once the next process's frame is popped, its
\* stack pointer is stored back into its PCB.
switch_context_writes_next(k, current, next) ==
    LET sp == k.regs.sp - SWITCH_FRAME
        frame == [a \in {sp + 8 * i : i \in 0..12} |->
                     IF a = sp THEN k.regs.ra ELSE k.regs.s[((a - sp) \div 8) - 1]]
    IN  Bind([k EXCEPT !.mem = StoreWords(k.mem, frame),
                       !.regs.sp = sp,
                       !.processes[current].sp = sp],
        LAMBDA k2 : Bind(restore_context(k2, next),
        LAMBDA k3 : [k3 EXCEPT !.processes[next].sp = k3.regs.sp]))

\* switch_context(&processes[current].sp, &processes[next].sp): a0 and a1
\* point at the two PCBs' sp fields.
switch_context(k, current, next) ==
    LET \* sd sp, 0(a0)
        k1 == [k EXCEPT !.processes[current].sp = k.regs.sp]
        \* addi sp, sp, -104
        sp == k.regs.sp - SWITCH_FRAME
        \* sd ra, 0(sp); sd s0, 8(sp); ...; sd s11, 96(sp)
        frame == [a \in {sp + 8 * i : i \in 0..12} |->
                     IF a = sp THEN k.regs.ra ELSE k.regs.s[((a - sp) \div 8) - 1]]
        \* sd sp, 0(a0)
        k2 == [k1 EXCEPT !.mem = StoreWords(k.mem, frame),
                         !.regs.sp = sp,
                         !.processes[current].sp = sp]
        \* ld sp, 0(a1); ld ra, 0(sp); ...; addi sp, sp, 104; ret
    IN  Bind(k2, LAMBDA k3 : restore_context(k3, next))

\* sp, ra and s0..s11 of a register file.
Snap(r) == [sp |-> r.sp, ra |-> r.ra, s |-> r.s]

NoSnap == [sp |-> 0, ra |-> 0, s |-> [i \in SRegs |-> 0]]

\* The call of switch_context in yield, with its record: what the caller's
\* registers were at the call, what the registers are at the return, and
\* whether the return is to a process that had called switch_context too.
SwitchTo(k, current, next) ==
    Bind([k EXCEPT !.regs.ra = RA_YIELD], LAMBDA k0 :
    Bind(switch_context(k0, current, next), LAMBDA k1 :
        [k1 EXCEPT !.at_yield[current] = [valid |-> TRUE, regs |-> Snap(k0.regs)],
                   !.resumed = [valid |-> k.at_yield[next].valid /\ next # current,
                                to |-> next, regs |-> Snap(k1.regs)]]))

\* yield(): switch to the other process, round robin.
yield(k) ==
    LET current == k.current_process
        next == (current + 1) % MAX_PROCESSES
    IN  Bind([k EXCEPT !.current_process = next], LAMBDA k1 : SwitchTo(k1, current, next))

\* start_scheduler(&processes[0].sp): enter process 0.
start_scheduler(k) ==
    Bind([k EXCEPT !.current_process = 0], LAMBDA k1 : restore_context(k1, 0))

\* ------------------------------------------------------------- filesystem

MAX_FILENAME == 64

MAX_FILE_SIZE == PAGE_SIZE

MAX_INODES == 16

Fds == 0..(MAX_INODES - 1)

\* An Inode of the zeroed .bss; filename holds the characters before the
\* terminating NUL.
NoInode == [filename |-> <<>>, size |-> 0, data_addr |-> 0, in_use |-> 0]

\* The characters of the C string at p (n bounds the scan).
RECURSIVE CString(_, _, _)
CString(m, p, n) ==
    IF n = 0 \/ ~(PageOf(p) \in DOMAIN m) \/ LoadByte(m, p) = 0
    THEN <<>>
    ELSE <<LoadByte(m, p)>> \o CString(m, p + 1, n - 1)

\* k's output with one more item.
Out(k, item) == [k EXCEPT !.uart = Append(@, item)]

\* The first index of S, or -1 when S is empty.
FirstOf(S) == IF S = {} THEN 0 - 1 ELSE CHOOSE i \in S : \A j \in S : i <= j

\* A mutant of fs_find_inode: the search stops after the first slot.
fs_find_inode_first_slot(k, name) ==
    FirstOf({i \in {0} : k.inode_table[i].in_use = 1 /\ k.inode_table[i].filename = name})

\* fs_find_inode: iterates the table for an in-use inode named name.
fs_find_inode(k, name) ==
    FirstOf({i \in Fds : k.inode_table[i].in_use = 1 /\ k.inode_table[i].filename = name})
\* A mutant of fd_valid: the slot's in-use flag is not looked at.
fd_valid_range_only(k, fd) == fd \in Fds

\* descriptor validity: 0 <= fd < 16 and inode_table[fd].in_use
fd_valid(k, fd) == fd \in Fds /\ k.inode_table[fd].in_use = 1

\* The failure return of a filesystem call: nothing is changed.
fs_fail(k) == [k |-> k, ret |-> 0 - 1]

\* A new inode in slot: a page is allocated, the inode is initialized.
fs_create(k, slot, name) ==
    Bind(alloc_page(k), LAMBDA r :
        [k |-> [r.a EXCEPT !.inode_table[slot] =
                   [filename |-> name, size |-> 0, data_addr |-> r.ret, in_use |-> 1]],
         ret |-> slot])

\* A mutant of fs_open: the lookup is skipped, every open creates.
fs_open_always_creates(k, filename) ==
    LET name == CString(k.mem, filename, MAX_FILENAME - 1)
        slot == FirstOf({i \in Fds : k.inode_table[i].in_use = 0})
    IN  IF slot < 0 THEN fs_fail(k) ELSE fs_create(k, slot, name)

\* A mutant of fs_open: with no free slot the last slot is taken.
fs_open_overwrites_last(k, filename) ==
    LET name == CString(k.mem, filename, MAX_FILENAME - 1)
        found == fs_find_inode(k, name)
        slot == FirstOf({i \in Fds : k.inode_table[i].in_use = 0})
    IN  IF found >= 0 THEN [k |-> k, ret |-> found]
        ELSE fs_create(k, IF slot < 0 THEN MAX_INODES - 1 ELSE slot, name)

\* A mutant of fs_open: a new inode keeps the size its slot held.
fs_open_keeps_size(k, filename) ==
    LET name == CString(k.mem, filename, MAX_FILENAME - 1)
        found == fs_find_inode(k, name)
        slot == FirstOf({i \in Fds : k.inode_table[i].in_use = 0})
    IN  IF found >= 0 THEN [k |-> k, ret |-> found]
        ELSE IF slot < 0 THEN fs_fail(k)
        ELSE Bind(fs_create(k, slot, name), LAMBDA r :
                [r EXCEPT !.k.inode_table[slot].size = k.inode_table[slot].size])

\* A mutant of fs_open: an existing file is given a new page and no length.
fs_open_realloc(k, filename) ==
    LET name == CString(k.mem, filename, MAX_FILENAME - 1)
        found == fs_find_inode(k, name)
        slot == FirstOf({i \in Fds : k.inode_table[i].in_use = 0})
    IN  IF found >= 0 THEN fs_create(k, found, name)
        ELSE IF slot < 0 THEN fs_fail(k)
        ELSE fs_create(k, slot, name)
\* A mutant of fs_open: a new file needs two free slots, the last free slot
\* is never given out.
fs_open_needs_two_free(k, filename) ==
    LET name == CString(k.mem, filename, MAX_FILENAME - 1)
        found == fs_find_inode(k, name)
        free == {i \in Fds : k.inode_table[i].in_use = 0}
    IN  IF found >= 0 THEN [k |-> k, ret |-> found]
        ELSE IF Cardinality(free) < 2 THEN fs_fail(k)
        ELSE fs_create(k, FirstOf(free), name)

\* int fs_open(const char *filename)
fs_open(k, filename) ==
    LET name == CString(k.mem, filename, MAX_FILENAME - 1)
        found == fs_find_inode(k, name)
        slot == FirstOf({i \in Fds : k.inode_table[i].in_use = 0})
    IN  IF found >= 0 THEN [k |-> k, ret |-> found]
        ELSE IF slot < 0 THEN fs_fail(k)
        ELSE fs_create(k, slot, name)

\* int fs_close(int fd)
fs_close(k, fd) == IF fd_valid(k, fd) THEN [k |-> k, ret |-> 0] ELSE fs_fail(k)

Min(a, b) == IF a < b THEN a ELSE b

\* for (i = 0; i < n; i++) dst[i] = src[i], the source and the destination
\* not overlapping.  The bytes are those of
\*   StoreBytes(m, [a \in dst..(dst + n - 1) |-> LoadByte(m, src + (a - dst))]),
\* found from the pages' sparse form: a destination byte can come to differ
\* from its page's background only where the source byte does.
CopyBytes(m, dst, src, n) ==
    IF n <= 0 THEN m
    ELSE
    LET first == PageOf(src)
        srcPages == {first + j * PAGE_SIZE :
                        j \in 0..((PageOf(src + n - 1) - first) \div PAGE_SIZE)}
        \* the source addresses whose byte may differ from f
        Differ(f) ==
            UNION {IF m[sp].fill = f
                   THEN {a \in {sp + o : o \in DOMAIN m[sp].d} : a >= src /\ a < src + n}
                   ELSE {a \in sp..(sp + PAGE_SIZE - 1) : a >= src /\ a < src + n}
                   : sp \in srcPages}
    IN  [p \in DOMAIN m |->
            IF p + PAGE_SIZE <= dst \/ p >= dst + n THEN m[p]
            ELSE Bind({a - src + dst : a \in Differ(m[p].fill)}, LAMBDA cand :
                 LET old == {i \in DOMAIN m[p].d : p + i < dst \/ p + i >= dst + n}
                     new == {a - p : a \in {c \in cand : /\ PageOf(c) = p
                                                         /\ LoadByte(m, c - dst + src) # m[p].fill}}
                 IN  [fill |-> m[p].fill,
                      d    |-> [i \in old \cup new |->
                                   IF i \in old THEN m[p].d[i]
                                   ELSE LoadByte(m, p + i - dst + src)]])]

\* A mutant of fs_read: max bytes are copied and counted, whatever the size.
fs_read_returns_max(k, fd, buffer, max) ==
    IF ~fd_valid(k, fd) THEN fs_fail(k)
    ELSE [k |-> [k EXCEPT !.mem = CopyBytes(k.mem, buffer, k.inode_table[fd].data_addr, max)],
          ret |-> max]

\* A mutant of fs_read: the bytes read are consumed.
fs_read_consumes(k, fd, buffer, max) ==
    IF ~fd_valid(k, fd) THEN fs_fail(k)
    ELSE LET inode == k.inode_table[fd]
             bytes_to_read == Min(max, inode.size)
         IN  [k |-> [k EXCEPT !.mem = CopyBytes(k.mem, buffer, inode.data_addr, bytes_to_read),
                              !.inode_table[fd].size = @ - bytes_to_read],
              ret |-> bytes_to_read]

\* int fs_read(int fd, void *buffer, uint64_t max)
fs_read(k, fd, buffer, max) ==
    IF ~fd_valid(k, fd) THEN fs_fail(k)
    ELSE LET inode == k.inode_table[fd]
             bytes_to_read == Min(max, inode.size)
         IN  [k |-> [k EXCEPT !.mem = CopyBytes(k.mem, buffer, inode.data_addr, bytes_to_read)],
              ret |-> bytes_to_read]

\* The bytes an fs_write of len bytes copies: at most a page.
write_len(len) == Min(len, MAX_FILE_SIZE)

\* A mutant of fs_write: len bytes are copied, however many.
fs_write_uncapped(k, fd, data, len) ==
    IF ~fd_valid(k, fd) THEN fs_fail(k)
    ELSE [k |-> [k EXCEPT !.mem = CopyBytes(k.mem, k.inode_table[fd].data_addr, data, len),
                          !.inode_table[fd].size = len],
          ret |-> len]

\* int fs_write(int fd, const void *data, uint64_t len)
fs_write(k, fd, data, len) ==
    IF ~fd_valid(k, fd) THEN fs_fail(k)
    ELSE LET n == write_len(len)
         IN  [k |-> [k EXCEPT !.mem = CopyBytes(k.mem, k.inode_table[fd].data_addr, data, n),
                              !.inode_table[fd].size = n],
              ret |-> n]

\* A mutant of fs_unlink: the result of the lookup is not tested, a miss
\* unlinks slot 0.
fs_unlink_no_check(k, filename) ==
    LET found == fs_find_inode(k, CString(k.mem, filename, MAX_FILENAME - 1))
        i == IF found < 0 THEN 0 ELSE found
    IN  [k |-> [free_page(k, k.inode_table[i].data_addr).a
                    EXCEPT !.inode_table[i].in_use = 0],
         ret |-> 0]
\* A mutant of fs_unlink: the page is freed and the slot stays in use.
fs_unlink_keeps_slot(k, filename) ==
    LET found == fs_find_inode(k, CString(k.mem, filename, MAX_FILENAME - 1))
    IN  IF found < 0 THEN fs_fail(k)
        ELSE [k |-> free_page(k, k.inode_table[found].data_addr).a, ret |-> 0]
\* A mutant of fs_unlink: the slot is cleared and the page is not freed.
fs_unlink_no_free(k, filename) ==
    LET found == fs_find_inode(k, CString(k.mem, filename, MAX_FILENAME - 1))
    IN  IF found < 0 THEN fs_fail(k)
        ELSE [k |-> [k EXCEPT !.inode_table[found].in_use = 0], ret |-> 0]

\* int fs_unlink(const char *filename)
fs_unlink(k, filename) ==
    LET found == fs_find_inode(k, CString(k.mem, filename, MAX_FILENAME - 1))
    IN  IF found < 0 THEN fs_fail(k)
        ELSE [k |-> [free_page(k, k.inode_table[found].data_addr).a
                        EXCEPT !.inode_table[found].in_use = 0],
              ret |-> 0]

\* void fs_list(void): the in-use inodes, in table order.
fs_list(k) ==
    Out(k, <<"list", {<<i, k.inode_table[i].filename, k.inode_table[i].size>> :
                         i \in {j \in Fds : k.inode_table[j].in_use = 1}}>>)

\* ---------------------------------------------------- system-call dispatcher

SYS_PUTS == 1

SYS_YIELD == 2

SYS_OPEN == 3

SYS_CLOSE == 4

SYS_READ == 5

SYS_WRITE == 6

SYS_UNLINK == 7

SYS_LIST == 8

\* A mutant of syscall_handler: SYS_PUTS falls through into SYS_YIELD.
syscall_handler_fall_through(k, id, arg0, arg1, arg2) ==
    CASE id = SYS_PUTS   -> Bind(Out(k, <<"puts", CString(k.mem, arg0, PAGE_SIZE)>>),
                                 LAMBDA k1 : yield(k1))
      [] id = SYS_YIELD  -> yield(k)
      [] id = SYS_OPEN   -> fs_open(k, arg0).k
      [] id = SYS_CLOSE  -> fs_close(k, arg0).k
      [] id = SYS_READ   -> fs_read(k, arg0, arg1, arg2).k
      [] id = SYS_WRITE  -> fs_write(k, arg0, arg1, arg2).k
      [] id = SYS_UNLINK -> fs_unlink(k, arg0).k
      [] id = SYS_LIST   -> fs_list(k)
      [] OTHER           -> k
\* A mutant of syscall_handler: SYS_OPEN gives the hart to the other process
\* once the file is open.
syscall_handler_open_yields(k, id, arg0, arg1, arg2) ==
    CASE id = SYS_PUTS   -> Out(k, <<"puts", CString(k.mem, arg0, PAGE_SIZE)>>)
      [] id = SYS_YIELD  -> yield(k)
      [] id = SYS_OPEN   -> Bind(fs_open(k, arg0).k, LAMBDA k1 : yield(k1))
      [] id = SYS_CLOSE  -> fs_close(k, arg0).k
      [] id = SYS_READ   -> fs_read(k, arg0, arg1, arg2).k
      [] id = SYS_WRITE  -> fs_write(k, arg0, arg1, arg2).k
      [] id = SYS_UNLINK -> fs_unlink(k, arg0).k
      [] id = SYS_LIST   -> fs_list(k)
      [] OTHER           -> k

\* void syscall_handler(uint64_t id, uint64_t arg0, uint64_t arg1,
\* uint64_t arg2): the value a call returns is dropped.
syscall_handler(k, id, arg0, arg1, arg2) ==
    CASE id = SYS_PUTS   -> Out(k, <<"puts", CString(k.mem, arg0, PAGE_SIZE)>>)
      [] id = SYS_YIELD  -> yield(k)
      [] id = SYS_OPEN   -> fs_open(k, arg0).k
      [] id = SYS_CLOSE  -> fs_close(k, arg0).k
      [] id = SYS_READ   -> fs_read(k, arg0, arg1, arg2).k
      [] id = SYS_WRITE  -> fs_write(k, arg0, arg1, arg2).k
      [] id = SYS_UNLINK -> fs_unlink(k, arg0).k
      [] id = SYS_LIST   -> fs_list(k)
      [] OTHER           -> k

\* ------------------------------------------------------------ trap pipeline

\* The hart jumped to an address that holds no code of the kernel or of a
\* process: the instruction fetch faults with no usable stack, and the hart
\* makes no further progress.
WildJump(k) == [Out(k, "wild jump") EXCEPT !.halted = TRUE]

\* A mutant of panic: the wfi loop is missing and panic returns.
panic_returns(k, msg) == Out(Out(k, "!!! KERNEL PANIC !!!"), msg)

\* void panic(const char *msg): print, then wfi forever.
panic(k, msg) ==
    [Out(Out(k, "!!! KERNEL PANIC !!!"), msg) EXCEPT !.halted = TRUE]

\* void trap_init(void)
trap_init(k) == Out([k EXCEPT !.mtvec = TRAP_VECTOR], "Trap handler initialized")

\* The hart takes a trap: mepc and mcause are written, mstatus.MIE is
\* stacked into MPIE and cleared, and the pc is loaded from mtvec.
trap_entry(k, interrupt, code) ==
    [k EXCEPT !.mepc = k.regs.pc,
              !.mcause = [interrupt |-> interrupt, code |-> code],
              !.mpie = k.mie,
              !.mie = FALSE,
              !.regs.pc = k.mtvec]

\* trap_vector, up to its call of trap_handler: push a TrapFrame.
trap_vector_save(k) ==
    LET sp == k.regs.sp - TRAP_FRAME
        r == k.regs
        frame == ((sp + TfOff("ra")) :> r.ra) @@ ((sp + TfOff("sp")) :> sp)
                 @@ ((sp + TfOff("a0")) :> r.a0) @@ ((sp + TfOff("a1")) :> r.a1)
                 @@ ((sp + TfOff("a2")) :> r.a2) @@ ((sp + TfOff("a7")) :> r.a7)
                 @@ [a \in {sp + TfOffS(i) : i \in SRegs} |->
                        r.s[IF a - sp < 136 THEN (a - sp - 56) \div 8
                            ELSE 2 + (a - sp - 136) \div 8]]
    IN  [k EXCEPT !.mem = StoreWords(k.mem, frame), !.regs.sp = sp, !.regs.a0 = sp]

\* trap_vector, after trap_handler returned: pop the TrapFrame and mret.
trap_vector_restore(k, frame) ==
    LET ra == LoadWord(k.mem, frame + TfOff("ra"))
        \* ld sp, 8(sp): the loads after it go through the loaded sp
        sp == LoadWord(k.mem, frame + TfOff("sp"))
    IN  IF ~InRam(k.mem, sp) \/ ~InRam(k.mem, sp + TRAP_FRAME - 8) THEN WildJump(k)
        ELSE [k EXCEPT !.regs = [pc |-> k.mepc,
                                 sp |-> sp + TRAP_FRAME,
                                 ra |-> ra,
                                 s  |-> [i \in SRegs |-> LoadWord(k.mem, sp + TfOffS(i))],
                                 a0 |-> LoadWord(k.mem, sp + TfOff("a0")),
                                 a1 |-> LoadWord(k.mem, sp + TfOff("a1")),
                                 a2 |-> LoadWord(k.mem, sp + TfOff("a2")),
                                 a7 |-> LoadWord(k.mem, sp + TfOff("a7"))],
                      !.mie = k.mpie,
                      !.mpie = TRUE]

\* The name trap_handler prints for an exception code.
ExceptionName(code) ==
    CASE code = 0 -> "Instruction Address Misaligned"
      [] code = 1 -> "Instruction Access Fault"
      [] code = 2 -> "Illegal Instruction"
      [] code = 3 -> "Breakpoint (ebreak)"
      [] code = 4 -> "Load Address Misaligned"
      [] code = 5 -> "Load Access Fault"
      [] code = 6 -> "Store/AMO Address Misaligned"
      [] code = 7 -> "Store/AMO Access Fault"
      [] code = 8 -> "Environment Call (ecall from U-mode)"
      [] code = 9 -> "Environment Call (ecall from S-mode)"
      [] code = 11 -> "Environment Call (ecall from M-mode)"
      [] code = 12 -> "Instruction Page Fault"
      [] code = 13 -> "Load Page Fault"
      [] code = 15 -> "Store/AMO Page Fault"
      [] OTHER -> "Unknown exception"

IsEcall(code) == code = 8 \/ code = 9 \/ code = 11

\* trap_handler(frame) from its entry to the return of its call of
\* syscall_handler: read the CSRs into the locals, log, dispatch.  The
\* dispatcher is called with the values in the frame; invoked records the
\* call.  When the call was a yield, the result is in another process.
trap_handler_head(k, frame) ==
    LET epc == k.mepc
        is_interrupt == k.mcause.interrupt
        code == k.mcause.code % 64
        k1 == [k EXCEPT !.mem = StoreWords(k.mem,
                                   (LocalEpc(frame) :> epc) @@ (LocalCode(frame) :> code)
                                   @@ (LocalIsInterrupt(frame) :> is_interrupt)),
                        !.regs.sp = frame - CALL_FRAMES]
        \* frame->a7, frame->a0, frame->a1, frame->a2
        args == <<LoadWord(k.mem, frame + TfOff("a7")), LoadWord(k.mem, frame + TfOff("a0")),
                  LoadWord(k.mem, frame + TfOff("a1")), LoadWord(k.mem, frame + TfOff("a2"))>>
    IN  IF is_interrupt = 1 THEN Out(k1, <<"[INTERRUPT]", code, epc>>)
        ELSE IF ~IsEcall(code)
        THEN Out(Out(k1, <<"[EXCEPTION]", code, epc>>), ExceptionName(code))
        ELSE Bind(args, LAMBDA a :
             Bind([k1 EXCEPT !.uart = @ \o <<<<"[EXCEPTION]", code, epc>>, ExceptionName(code)>>,
                             !.invoked = Append(@, a)],
                  LAMBDA k2 : syscall_handler(k2, a[1], a[2], a[3], a[4])))

\* A mutant of trap_handler: mepc is left at the trapping instruction.
trap_handler_tail_no_advance(k, frame) ==
    LET is_interrupt == LoadWord(k.mem, LocalIsInterrupt(frame))
        code == LoadWord(k.mem, LocalCode(frame))
    IN  IF is_interrupt = 0 /\ code # 3 /\ ~IsEcall(code)
        THEN panic(k, "Unrecoverable exception!")
        ELSE k

\* A mutant of trap_handler: the load access fault is let through as
\* recoverable.
trap_handler_tail_allow_5(k, frame) ==
    LET is_interrupt == LoadWord(k.mem, LocalIsInterrupt(frame))
        code == LoadWord(k.mem, LocalCode(frame))
        epc == LoadWord(k.mem, LocalEpc(frame))
        k1 == IF is_interrupt = 0 /\ code # 3 THEN [k EXCEPT !.mepc = epc + 4] ELSE k
    IN  IF is_interrupt = 0 /\ code # 3 /\ code # 5 /\ ~IsEcall(code)
        THEN panic(k1, "Unrecoverable exception!")
        ELSE k1
\* A mutant of trap_handler: the breakpoint is stepped over like any other
\* exception.
trap_handler_tail_advance_3(k, frame) ==
    LET is_interrupt == LoadWord(k.mem, LocalIsInterrupt(frame))
        code == LoadWord(k.mem, LocalCode(frame))
        epc == LoadWord(k.mem, LocalEpc(frame))
        k1 == IF is_interrupt = 0 THEN [k EXCEPT !.mepc = epc + 4] ELSE k
    IN  IF is_interrupt = 0 /\ code # 3 /\ code # 8 /\ code # 9 /\ code # 11
        THEN panic(k1, "Unrecoverable exception!")
        ELSE k1

\* A mutant of trap_handler: the test of is_interrupt is missing where mepc
\* is advanced and where the handler panics.
trap_handler_tail_no_interrupt_test(k, frame) ==
    LET code == LoadWord(k.mem, LocalCode(frame))
        epc == LoadWord(k.mem, LocalEpc(frame))
        k1 == IF code # 3 THEN [k EXCEPT !.mepc = epc + 4] ELSE k
    IN  IF code # 3 /\ code # 8 /\ code # 9 /\ code # 11
        THEN panic(k1, "Unrecoverable exception!")
        ELSE k1

\* A mutant of trap_handler_tail: the advance reads the mepc register again
\* where the handler uses the epc it captured at its entry.
trap_handler_tail_rereads_mepc(k, frame) ==
    LET is_interrupt == LoadWord(k.mem, LocalIsInterrupt(frame))
        code == LoadWord(k.mem, LocalCode(frame))
        k1 == IF is_interrupt = 0 /\ code # 3 THEN [k EXCEPT !.mepc = k.mepc + 4] ELSE k
    IN  IF is_interrupt = 0 /\ code # 3 /\ code # 8 /\ code # 9 /\ code # 11
        THEN panic(k1, "Unrecoverable exception!")
        ELSE k1

\* trap_handler(frame) after the dispatch: advance mepc past the trapping
\* instruction for every exception but the breakpoint, and panic unless the
\* exception is a breakpoint or an ecall.
trap_handler_tail(k, frame) ==
    LET is_interrupt == LoadWord(k.mem, LocalIsInterrupt(frame))
        code == LoadWord(k.mem, LocalCode(frame))
        epc == LoadWord(k.mem, LocalEpc(frame))
        k1 == IF is_interrupt = 0 /\ code # 3 THEN [k EXCEPT !.mepc = epc + 4] ELSE k
    IN  IF is_interrupt = 0 /\ code # 3 /\ code # 8 /\ code # 9 /\ code # 11
        THEN panic(k1, "Unrecoverable exception!")
        ELSE k1

\* Whether pc is in the kernel, in trap_vector or in yield.
InKernel(pc) == pc = TRAP_VECTOR \/ pc = RA_YIELD

\* From the return of the dispatch to the next instruction of a process:
\* the handler whose stack the hart is on finishes and trap_vector returns
\* from the trap, unless a yield entered a process for the first time.
trap_return(k) ==
    LET frame == k.regs.sp + CALL_FRAMES
    IN  IF k.halted THEN k
        ELSE IF k.regs.pc \in {Entry(p) : p \in Procs} THEN k
        ELSE IF ~InKernel(k.regs.pc) \/ ~InRam(k.mem, k.regs.sp)
                \/ ~InRam(k.mem, frame + TRAP_FRAME - 8) THEN WildJump(k)
        ELSE Bind(trap_handler_tail(k, frame), LAMBDA k1 :
                 IF k1.halted THEN k1 ELSE trap_vector_restore(k1, frame))

\* A trap, from the trapping instruction to the next instruction a process
\* executes (or the halt).
trap(k, interrupt, code) ==
    Bind(trap_entry([k EXCEPT !.uart = <<>>, !.invoked = <<>>], interrupt, code), LAMBDA k1 :
    Bind(trap_vector_save(k1), LAMBDA k2 :
    Bind(trap_handler_head(k2, k2.regs.sp), LAMBDA k3 : trap_return(k3))))

\* ------------------------------------------------------------------- state

VARIABLES
    free_page_list,   \* static Page *free_page_list
    total_pages,      \* static uint64_t total_pages
    free_pages,       \* static uint64_t free_pages
    mem,              \* RAM: page address -> content
    processes,        \* the PCB table: id, sp, stack_addr
    current_process,  \* the index of the running process
    inode_table,      \* static Inode inode_table[MAX_INODES]
    mtvec,            \* CSR: the trap vector
    mepc,             \* CSR: the pc of the trapping instruction
    mcause,           \* CSR: interrupt bit and code
    mie,              \* CSR mstatus, bit MIE
    mpie,             \* CSR mstatus, bit MPIE
    mode,             \* the privilege mode the hart runs code in: 0, 1 or 3
    regs,             \* pc, sp, ra, s0..s11, a0, a1, a2, a7
    halted,           \* the hart is in panic's wfi loop
    boot,             \* kernel_main's next step, "run" once a process runs
    uart,             \* what the last step wrote to the UART
    invoked,          \* the calls of syscall_handler the last step made
    at_yield,         \* process -> sp, ra, s0..s11 when it last called switch_context
    resumed,          \* sp, ra, s0..s11 when switch_context last returned
    n_ecalls,         \* how many ecall instructions were executed
    n_syscalls,       \* how many times syscall_handler was called
    trap_at,          \* process -> pc, sp, ra, s0..s11 when it last trapped
    held,             \* page -> how many times the allocator's caller holds it
    last,             \* the last allocator call: what was asked, what came back
    fs_call,          \* the last filesystem call: what was asked, what came back
    fs_written        \* descriptor -> who created the file, who wrote it last, what

allocVars == <<free_page_list, total_pages, free_pages, mem>>

kernVars == <<processes, current_process, inode_table, mtvec, mepc, mcause, mie, mpie,
              mode, regs, halted, boot, uart, invoked, at_yield, resumed,
              n_ecalls, n_syscalls, trap_at, fs_call, fs_written>>

harnessVars == <<held, last>>

vars == <<free_page_list, total_pages, free_pages, mem, processes, current_process,
          inode_table, mtvec, mepc, mcause, mie, mpie, mode, regs, halted, boot, uart,
          invoked, at_yield, resumed, n_ecalls, n_syscalls, trap_at, held, last,
                   fs_call, fs_written>>

\* The kernel's state, as the record the operations take.
K ==
    [free_page_list |-> free_page_list, total_pages |-> total_pages,
     free_pages |-> free_pages, mem |-> mem, processes |-> processes,
     current_process |-> current_process, inode_table |-> inode_table,
     mtvec |-> mtvec, mepc |-> mepc, mcause |-> mcause, mie |-> mie, mpie |-> mpie,
     regs |-> regs, halted |-> halted, uart |-> uart, invoked |-> invoked,
     at_yield |-> at_yield, resumed |-> resumed]

SetK(k) ==
    /\ free_page_list' = k.free_page_list
    /\ total_pages' = k.total_pages
    /\ free_pages' = k.free_pages
    /\ mem' = k.mem
    /\ processes' = k.processes
    /\ current_process' = k.current_process
    /\ inode_table' = k.inode_table
    /\ mtvec' = k.mtvec
    /\ mepc' = k.mepc
    /\ mcause' = k.mcause
    /\ mie' = k.mie
    /\ mpie' = k.mpie
    /\ regs' = k.regs
    /\ halted' = k.halted
    /\ uart' = k.uart
    /\ invoked' = k.invoked
    /\ at_yield' = k.at_yield
    /\ resumed' = k.resumed

\* The allocator's globals, as the record the operations take.
Alloc ==
    [free_page_list |-> free_page_list, total_pages |-> total_pages,
     free_pages |-> free_pages, mem |-> mem]

SetAlloc(a) ==
    /\ free_page_list' = a.free_page_list
    /\ total_pages' = a.total_pages
    /\ free_pages' = a.free_pages
    /\ mem' = a.mem

\* The record of a filesystem call: the operation, the process that made it,
\* the name or the descriptor, the user buffer and the count given, and the
\* value returned.  count is the number of the call; prev_op is the call
\* before it; after_unlink: the call before it was a successful fs_unlink of
\* the same name.
NoFsCall == [op |-> "none", by |-> 0, name |-> <<>>, fd |-> 0, buf |-> 0, n |-> 0,
             ret |-> 0, count |-> 0, prev_op |-> "none", after_unlink |-> FALSE]

\* What is known of a file's content: nothing, or the process that created
\* the file, the process whose fs_write came last, and the address and
\* count that write was given.
NotWritten == [valid |-> FALSE, creator |-> 0, by |-> 0, src |-> 0, n |-> 0]

\* The kernel's variables other than the allocator's, every one b: the .bss
\* filled with zeroes (b = 0) or not yet cleared, the CSRs and the
\* registers at reset; the hart has not run any of kernel_main.
Bss(b, step) ==
    /\ processes = [p \in Procs |-> [id |-> b, sp |-> b, stack_addr |-> b]]
    /\ current_process = b
    /\ inode_table = [i \in Fds |-> IF b = 0 THEN NoInode
                                    ELSE [filename |-> <<b>>, size |-> b,
                                          data_addr |-> b, in_use |-> b]]
    /\ mtvec = 0
    /\ mepc = 0
    /\ mcause = [interrupt |-> 0, code |-> 0]
    /\ mie = FALSE
    /\ mpie = FALSE
    /\ regs = [pc |-> KERNEL_BASE, sp |-> 0, ra |-> 0, s |-> [i \in SRegs |-> 0],
               a0 |-> 0, a1 |-> 0, a2 |-> 0, a7 |-> 0]
    /\ halted = FALSE
    /\ boot = step
    /\ uart = <<>>
    /\ invoked = <<>>
    /\ at_yield = [p \in Procs |-> [valid |-> FALSE, regs |-> NoSnap]]
    /\ resumed = [valid |-> FALSE, to |-> 0, regs |-> NoSnap]
    /\ n_ecalls = 0
    /\ n_syscalls = 0
    /\ trap_at = [p \in Procs |-> [pc |-> 0, regs |-> NoSnap]]
    /\ fs_call = NoFsCall
    /\ fs_written = [fd \in Fds |-> NotWritten]

\* The free list, head first.
FreeList == ListFrom(mem, free_page_list, RAM_SIZE \div PAGE_SIZE)

\* ------------------------------------------- the allocator under any caller
\* The kernel image ends at one of these addresses (the linker's
\* __kernel_end): one byte into a page, on a page boundary, one byte past it.
KernelEnds ==
    LET top == KERNEL_BASE + RAM_SIZE - AllocPages * PAGE_SIZE
    IN  {top - PAGE_SIZE + 1, top, top + 1}

\* What RAM holds before the kernel has written it.
RamGarbage == {0, 165}

\* The bytes a caller writes into a page it holds, and where.
OwnerBytes == {239}

OwnerOffsets == {PAGE_SIZE - 1}

RawRam(g) == [p \in PagesBetween(KERNEL_BASE, KERNEL_BASE + RAM_SIZE) |-> FilledPage(g)]

\* The record of an allocator call (of pages_init, arg is the kernel end it
\* was given).  seq flips at every call; prev_op,
\* prev_arg and prev_free are the call before it (op, arg, free_before);
\* head_before and free_before the head and counter it found; link_before
\* and tail_before whether the head's page then held a non-zero byte in its
\* first word and at its last byte; ret_zero whether the returned page was
\* all zero when the call returned.
NoCall == [op |-> "none", arg |-> 0, ret |-> 0, out |-> "none", seq |-> 0,
           prev_op |-> "none", prev_arg |-> 0, prev_free |-> 0,
           head_before |-> NULL, free_before |-> 0,
           link_before |-> FALSE, tail_before |-> FALSE, ret_zero |-> FALSE]

Called(op, arg, r) ==
    [op |-> op, arg |-> arg, ret |-> r.ret, out |-> r.out, seq |-> 1 - last.seq,
     prev_op |-> last.op, prev_arg |-> last.arg, prev_free |-> last.free_before,
     head_before |-> free_page_list, free_before |-> free_pages,
     link_before |-> /\ free_page_list \in DOMAIN mem
                     /\ \E i \in 0..7 : PageByte(mem[free_page_list], i) # 0,
     tail_before |-> /\ free_page_list \in DOMAIN mem
                     /\ PageByte(mem[free_page_list], PAGE_SIZE - 1) # 0,
     ret_zero    |-> r.ret \in DOMAIN r.a.mem /\ AllBytes(r.a.mem[r.ret], 0)]

\* The state right after pages_init.
InitAlloc ==
    \E ke \in KernelEnds, g \in RamGarbage :
        LET a == pages_init(ke, RawRam(g))
        IN  /\ ~a.fault
            /\ free_page_list = a.free_page_list
            /\ total_pages = a.total_pages
            /\ free_pages = a.free_pages
            /\ mem = a.mem
            /\ held = [p \in DOMAIN a.mem |-> 0]
            /\ last = [NoCall EXCEPT !.op = "pages_init", !.arg = ke]
            /\ mode = 3
            /\ Bss(0, "none")

\* The caller takes the page an allocation returned.
Take(ret) == IF ret = 0 THEN held ELSE [held EXCEPT ![ret] = @ + 1]

CallAllocPage ==
    LET r == alloc_page(Alloc)
    IN  /\ SetAlloc(r.a)
        /\ held' = Take(r.ret)
        /\ last' = Called("alloc_page", 0, r)
        /\ UNCHANGED kernVars

CallAllocPages ==
    \E count \in 1..MaxCount :
        LET r == alloc_pages(Alloc, count)
        IN  /\ SetAlloc(r.a)
            /\ held' = Take(r.ret)
            /\ last' = Called("alloc_pages", count, r)
            /\ UNCHANGED kernVars

\* free_page of a held page, or of the null address.
CallFreePage ==
    \E page_addr \in {p \in DOMAIN held : held[p] > 0} \cup {0} :
        LET r == free_page(Alloc, page_addr)
        IN  /\ SetAlloc(r.a)
            /\ held' = IF page_addr = 0 THEN held ELSE [held EXCEPT ![page_addr] = @ - 1]
            /\ last' = Called("free_page", page_addr, r @@ [ret |-> 0])
            /\ UNCHANGED kernVars

\* The caller writes a byte into a page it holds.
OwnerStore ==
    \E p \in {q \in DOMAIN held : held[q] > 0}, off \in OwnerOffsets, b \in OwnerBytes :
        /\ mem' = StoreBytes(mem, (p + off) :> b)
        /\ UNCHANGED <<free_page_list, total_pages, free_pages, held, last>>
        /\ UNCHANGED kernVars

\* mem_test(), called with the allocator in any state; when the second
\* allocation fails it returns with page 1 still allocated.
CallMemTest ==
    \E r \in {mem_test(Alloc)} :
        /\ SetAlloc(r.a)
        /\ held' = IF r.out = "fail_second" THEN Take(r.ret) ELSE held
        /\ last' = Called("mem_test", 0, r)
        /\ UNCHANGED kernVars

NextAlloc ==
    \/ CallAllocPage
    \/ CallAllocPages
    \/ CallFreePage
    \/ OwnerStore

SpecAlloc == InitAlloc /\ [][NextAlloc]_vars

\* mem_test among the calls of the allocator.
NextMemTest ==
    \/ CallAllocPage
    \/ CallFreePage
    \/ OwnerStore
    \/ CallMemTest

SpecMemTest == InitAlloc /\ [][NextMemTest]_vars

\* ------------------------------------------- the allocator over any pool
\* The kernel image may fill RAM: it ends one byte into the last page of RAM
\* or at the RAM top, and no whole page is left; or it ends as in KernelEnds.
PoolEnds ==
    LET ram_end == KERNEL_BASE + RAM_SIZE
    IN  KernelEnds \cup {ram_end - PAGE_SIZE + 1, ram_end}

\* The state pages_init leaves, or the state it faults in: its first store
\* is outside RAM when total_pages is 0, and the hart takes a store access
\* fault in the loop.
InitPool ==
    \E ke \in PoolEnds, g \in RamGarbage :
        \E a \in {pages_init(ke, RawRam(g))} :
            /\ free_page_list = a.free_page_list
            /\ total_pages = a.total_pages
            /\ free_pages = a.free_pages
            /\ mem = a.mem
            /\ held = [p \in DOMAIN a.mem |-> 0]
            /\ last = [NoCall EXCEPT !.op = "pages_init", !.arg = ke,
                                     !.out = IF a.fault THEN "fault" ELSE "none"]
            /\ mode = 3
            /\ Bss(0, "none")

\* The calls that follow pages_init, when it returned.
NextPool ==
    \/ last.out # "fault" /\ CallAllocPage
    \/ last.out # "fault" /\ CallFreePage

SpecPool == InitPool /\ [][NextPool]_vars

\* ------------------------------------------ the kernel and its two processes

\* The linker's __kernel_end: the image leaves BootPages pages of RAM free.
KernelEnd == KERNEL_BASE + RAM_SIZE - BootPages * PAGE_SIZE

\* The strings of .rodata the processes pass to the kernel: "a" and "b".
RODATA == KERNEL_BASE + PAGE_SIZE

Str(i) == RODATA + 8 * i

StrPtrs == {Str(0), Str(1)}

\* RAM with the kernel image loaded.
Image ==
    StoreBytes(RawRam(CHOOSE g \in RamGarbage : g # 0),
               (Str(0) :> 97) @@ ((Str(0) + 1) :> 0) @@ (Str(1) :> 98) @@ ((Str(1) + 1) :> 0))

\* The code of process p: its prologue at Entry(p), then a loop of one
\* instruction and the jump back to it.
Body(p) == {Entry(p) + 4}

LoopEnd(p) == Entry(p) + 8

\* The process whose code holds pc, or -1.
ProcAt(pc) == FirstOf({p \in Procs : pc \in {Entry(p), LoopEnd(p)} \cup Body(p)})

\* The frame the prologue of a process reserves for its locals, and the
\* buffer among them.
USER_FRAME == 32 * 16

Buf(sp) == sp + 16

\* The exception codes a process's instruction can raise besides an ecall,
\* and the interrupts that can be pending.
ExceptionCodes == {2, 3, 63}

InterruptCodes == {7, 11}

\* The values process p leaves in ra and s0..s11 when it computes.
UserRa(p) == Entry(p) + 4

UserValue(p, i) == 16 * (p + 1) + i

\* The system calls a process makes: id, arg0, arg1, arg2.
UserCalls(sp) ==
    {<<SYS_PUTS, Str(0), 0, 0>>}
    \cup {<<SYS_YIELD, 0, 0, 0>>}
    \cup {<<SYS_OPEN, s, 0, 0>> : s \in StrPtrs}
    \cup {<<SYS_CLOSE, 0, 0, 0>>}
    \cup {<<SYS_READ, 0, Buf(sp), 1>>}
    \cup {<<SYS_WRITE, 0, Str(1), 1>>}
    \cup {<<SYS_UNLINK, Str(0), 0, 0>>}
    \cup {<<SYS_LIST, 0, 0, 0>>}
    \cup {<<SYS_LIST + 1, Str(0), 0, 0>>}

\* Power on: the image in RAM, the .bss not yet cleared, the hart in any of
\* the modes U, S and M.
Init ==
    \E b \in {0, 1}, md \in {0, 1, 3} :
        /\ mem = Image
        /\ free_page_list = b
        /\ total_pages = b
        /\ free_pages = b
        /\ mode = md
        /\ Bss(b, "clear_bss")
        /\ held = [p \in DOMAIN mem |-> 0]
        /\ last = NoCall

quiet == uart' = <<>> /\ invoked' = <<>>

\* clear_bss(): the kernel's globals become zero.
ClearBss ==
    /\ boot = "clear_bss"
    /\ boot' = "trap_init"
    /\ processes' = [p \in Procs |-> [id |-> 0, sp |-> 0, stack_addr |-> 0]]
    /\ current_process' = 0
    /\ inode_table' = [i \in Fds |-> NoInode]
    /\ free_page_list' = NULL
    /\ total_pages' = 0
    /\ free_pages' = 0
    /\ quiet
    /\ UNCHANGED <<mem, mtvec, mepc, mcause, mie, mpie, mode, regs, halted,
                   at_yield, resumed, n_ecalls, n_syscalls, trap_at, held, last,
                   fs_call, fs_written>>
\* A mutant of TrapInit: kernel_main goes on with processes_init, the call
\* of pages_init is left out.
TrapInit_skips_pages_init ==
    /\ boot = "trap_init"
    /\ boot' = "processes_init"
    /\ \E k \in {trap_init([K EXCEPT !.uart = <<>>, !.invoked = <<>>])} : SetK(k)
    /\ UNCHANGED <<mode, n_ecalls, n_syscalls, trap_at, held, last, fs_call, fs_written>>

TrapInit ==
    /\ boot = "trap_init"
    /\ boot' = "pages_init"
    /\ \E k \in {trap_init([K EXCEPT !.uart = <<>>, !.invoked = <<>>])} : SetK(k)
    /\ UNCHANGED <<mode, n_ecalls, n_syscalls, trap_at, held, last, fs_call, fs_written>>

PagesInit ==
    /\ boot = "pages_init"
    /\ boot' = "processes_init"
    /\ SetAlloc(pages_init(KernelEnd, mem))
    /\ quiet
    /\ UNCHANGED <<processes, current_process, inode_table, mtvec, mepc, mcause, mie,
                   mpie, mode, regs, halted, at_yield, resumed, n_ecalls, n_syscalls,
                   trap_at, held, last, fs_call, fs_written>>

ProcessesInit ==
    /\ boot = "processes_init"
    /\ boot' = "start_scheduler"
    /\ \E k \in {processes_init([K EXCEPT !.uart = <<>>, !.invoked = <<>>])} : SetK(k)
    /\ UNCHANGED <<mode, n_ecalls, n_syscalls, trap_at, held, last, fs_call, fs_written>>

StartScheduler ==
    /\ boot = "start_scheduler"
    /\ boot' = "run"
    /\ \E k \in {start_scheduler([K EXCEPT !.uart = <<>>, !.invoked = <<>>])} : SetK(k)
    /\ UNCHANGED <<mode, n_ecalls, n_syscalls, trap_at, held, last, fs_call, fs_written>>

\* A process is executing its instructions.
Running == boot = "run" /\ ~halted

\* A step of a process that touches registers only.
UserStep(r) ==
    /\ regs' = r
    /\ quiet
    /\ UNCHANGED <<free_page_list, total_pages, free_pages, mem, processes,
                   current_process, inode_table, mtvec, mepc, mcause, mie, mpie, mode,
                   halted, boot, at_yield, resumed, n_ecalls, n_syscalls, trap_at, held, last,
                   fs_call, fs_written>>

\* The prologue of a process's entry function.
UserEnter ==
    /\ Running
    /\ \E p \in Procs : regs.pc = Entry(p)
    /\ UserStep([regs EXCEPT !.sp = @ - USER_FRAME, !.pc = @ + 4])

\* An instruction of a process's loop: the process's values are in ra and
\* s0..s11 after it.
UserCompute ==
    /\ Running
    /\ \E p \in Procs :
          /\ regs.pc \in Body(p)
          /\ UserStep([regs EXCEPT !.ra = UserRa(p),
                                    !.s = [i \in SRegs |-> UserValue(p, i)],
                                    !.pc = @ + 4])

\* The jump that closes a process's loop.
UserJump ==
    /\ Running
    /\ \E p \in Procs : regs.pc = LoopEnd(p) /\ UserStep([regs EXCEPT !.pc = Entry(p) + 4])

\* csrsi mstatus, MIE
UserEnableInterrupts ==
    /\ Running
    /\ ~mie
    /\ \E p \in Procs : regs.pc \in Body(p)
    /\ mie' = TRUE
    /\ regs' = [regs EXCEPT !.pc = @ + 4]
    /\ quiet
    /\ UNCHANGED <<free_page_list, total_pages, free_pages, mem, processes,
                   current_process, inode_table, mtvec, mepc, mcause, mpie, mode,
                   halted, boot, at_yield, resumed, n_ecalls, n_syscalls, trap_at, held, last,
                   fs_call, fs_written>>

\* The hart takes a trap in the code of the running process.
Trapped == trap_at' = [trap_at EXCEPT ![current_process] = [pc |-> regs.pc, regs |-> Snap(regs)]]

\* syscall(id, arg0, arg1, arg2) of common.h: the arguments into a7, a0, a1
\* and a2, then ecall; the trap runs to the next instruction of a process.
Syscall ==
    /\ Running
    /\ n_ecalls < MaxEcalls
    /\ \E p \in Procs, c \in UserCalls(regs.sp) :
          /\ regs.pc \in Body(p)
          /\ \E k \in {trap([K EXCEPT !.regs.a7 = c[1], !.regs.a0 = c[2],
                                       !.regs.a1 = c[3], !.regs.a2 = c[4]], 0, 8 + mode)} :
                 /\ SetK(k)
                 /\ n_syscalls' = n_syscalls + Len(k.invoked)
    /\ n_ecalls' = n_ecalls + 1
    /\ Trapped
    /\ UNCHANGED <<mode, boot, held, last, fs_call, fs_written>>

\* An instruction of a process raises an exception other than an ecall.
Exception ==
    /\ Running
    /\ \E p \in Procs, code \in ExceptionCodes :
          /\ regs.pc \in Body(p)
          /\ \E k \in {trap(K, 0, code)} :
                 /\ SetK(k)
                 /\ n_syscalls' = n_syscalls + Len(k.invoked)
    /\ Trapped
    /\ UNCHANGED <<mode, boot, n_ecalls, held, last, fs_call, fs_written>>

\* The hart takes an interrupt: mstatus.MIE is set and one is pending.
Interrupt ==
    /\ boot = "run"
    /\ mie
    /\ \E code \in InterruptCodes :
          \E k \in {trap(K, 1, code)} :
              /\ SetK(k)
              /\ n_syscalls' = n_syscalls + Len(k.invoked)
    /\ Trapped
    /\ UNCHANGED <<mode, boot, n_ecalls, held, last, fs_call, fs_written>>

Next ==
    \/ ClearBss
    \/ TrapInit
    \/ PagesInit
    \/ ProcessesInit
    \/ StartScheduler
    \/ UserEnter
    \/ UserCompute
    \/ UserJump
    \/ UserEnableInterrupts
    \/ Syscall
    \/ Exception
    \/ Interrupt

Spec == Init /\ [][Next]_vars

\* ---------------------------------------------------- the trap of every cause
\* The kernel boots, and the instruction of process 0's loop raises any
\* exception: any code of cause & 0x3F, the ecall's being the code of the
\* hart's mode, with the registers as they are.

AnyException ==
    /\ Running
    /\ \E p \in Procs, code \in 0..63 :
          /\ regs.pc \in Body(p)
          /\ IsEcall(code) => code = 8 + mode /\ n_ecalls < MaxEcalls
          /\ n_ecalls' = IF IsEcall(code) THEN n_ecalls + 1 ELSE n_ecalls
          /\ \E k \in {trap(K, 0, code)} :
                 /\ SetK(k)
                 /\ n_syscalls' = n_syscalls + Len(k.invoked)
    /\ Trapped
    /\ UNCHANGED <<mode, boot, held, last, fs_call, fs_written>>

NextTrap ==
    \/ ClearBss
    \/ TrapInit
    \/ PagesInit
    \/ ProcessesInit
    \/ StartScheduler
    \/ UserEnter
    \/ UserJump
    \/ AnyException

SpecTrap == Init /\ [][NextTrap]_vars

\* ---------------------------------------------- the trap of every interrupt
\* The kernel boots, a process enables interrupts, and the hart takes
\* interrupts of any code in the loops of the processes.

\* The hart takes an interrupt of any code of cause & 0x3F: mstatus.MIE is
\* set and the interrupt is pending.
AnyInterrupt ==
    /\ boot = "run"
    /\ mie
    /\ \E code \in 0..63 :
          \E k \in {trap(K, 1, code)} :
              /\ SetK(k)
              /\ n_syscalls' = n_syscalls + Len(k.invoked)
    /\ Trapped
    /\ UNCHANGED <<mode, boot, n_ecalls, held, last, fs_call, fs_written>>

NextIrq ==
    \/ ClearBss
    \/ TrapInit
    \/ PagesInit
    \/ ProcessesInit
    \/ StartScheduler
    \/ UserEnter
    \/ UserJump
    \/ UserEnableInterrupts
    \/ AnyInterrupt

SpecIrq == Init /\ [][NextIrq]_vars

\* ------------------------------------------------- the processes run forever
\* The kernel boots and the processes run their loops with no bound on the
\* number of traps: an instruction of a loop computes, yields or raises an
\* exception.  The hart always executes its next instruction.

\* syscall(SYS_YIELD, 0, 0, 0) by the running process.
YieldCall ==
    /\ Running
    /\ \E p \in Procs :
          /\ regs.pc \in Body(p)
          /\ \E k \in {trap([K EXCEPT !.regs.a7 = SYS_YIELD, !.regs.a0 = 0,
                                       !.regs.a1 = 0, !.regs.a2 = 0], 0, 8 + mode)} :
                 SetK(k)
    /\ Trapped
    /\ UNCHANGED <<mode, boot, n_ecalls, n_syscalls, held, last, fs_call, fs_written>>

NextLive ==
    \/ ClearBss
    \/ TrapInit
    \/ PagesInit
    \/ ProcessesInit
    \/ StartScheduler
    \/ UserEnter
    \/ UserCompute
    \/ UserJump
    \/ YieldCall
    \/ Exception

SpecLive == Init /\ [][NextLive]_vars /\ WF_vars(NextLive)

\* ------------------------------------------- the filesystem under any caller
\* The kernel has booted and the two processes call the filesystem's
\* operations with any of a few arguments, and yield to each other.

\* The user data of the image: a page and a byte of bytes to write, and a
\* buffer to read into.
DATA == KERNEL_BASE + 2 * PAGE_SIZE

BUF == KERNEL_BASE + 4 * PAGE_SIZE

\* The file names of .rodata: "a", "b", ... at Str(0), Str(1), ...
NameCount == MAX_INODES + 1

NameOf(j) == <<97 + j>>

\* RAM with the kernel image and the user data loaded.
FsImage ==
    LET blank == [p \in DOMAIN Image |->
                     IF p \in {DATA, DATA + PAGE_SIZE, BUF} THEN FilledPage(0) ELSE Image[p]]
        names == [a \in UNION {{Str(j), Str(j) + 1} : j \in 0..(NameCount - 1)} |->
                     IF a % 8 = 0 THEN 97 + ((a - RODATA) \div 8) ELSE 0]
        data  == (DATA :> 72) @@ ((DATA + 1) :> 105) @@ ((DATA + PAGE_SIZE - 1) :> 33)
                 @@ ((DATA + PAGE_SIZE) :> 90)
    IN  StoreBytes(StoreBytes(blank, names), data)

\* The kernel when kernel_main has started the scheduler, the image having
\* left pages pages free.
Booted(pages) ==
    LET a  == pages_init(KERNEL_BASE + RAM_SIZE - pages * PAGE_SIZE, FsImage)
        k0 == [free_page_list |-> a.free_page_list, total_pages |-> a.total_pages,
               free_pages |-> a.free_pages, mem |-> a.mem,
               processes |-> [p \in Procs |-> [id |-> 0, sp |-> 0, stack_addr |-> 0]],
               current_process |-> 0, inode_table |-> [i \in Fds |-> NoInode],
               mtvec |-> 0, mepc |-> 0, mcause |-> [interrupt |-> 0, code |-> 0],
               mie |-> FALSE, mpie |-> FALSE,
               regs |-> [pc |-> KERNEL_BASE, sp |-> 0, ra |-> 0, s |-> [i \in SRegs |-> 0],
                         a0 |-> 0, a1 |-> 0, a2 |-> 0, a7 |-> 0],
               halted |-> FALSE, uart |-> <<>>, invoked |-> <<>>,
               at_yield |-> [p \in Procs |-> [valid |-> FALSE, regs |-> NoSnap]],
               resumed |-> [valid |-> FALSE, to |-> 0, regs |-> NoSnap]]
    IN  Bind(trap_init(k0), LAMBDA k1 :
        Bind(processes_init(k1), LAMBDA k2 :
        Bind(start_scheduler(k2), LAMBDA k3 : [k3 EXCEPT !.uart = <<>>])))

\* The variables hold the kernel state k; the last call was call, and
\* written is what is known of the files.
InitBooted(k, call, written) ==
    /\ free_page_list = k.free_page_list
    /\ total_pages = k.total_pages
    /\ free_pages = k.free_pages
    /\ mem = k.mem
    /\ processes = k.processes
    /\ current_process = k.current_process
    /\ inode_table = k.inode_table
    /\ mtvec = k.mtvec
    /\ mepc = k.mepc
    /\ mcause = k.mcause
    /\ mie = k.mie
    /\ mpie = k.mpie
    /\ regs = k.regs
    /\ halted = k.halted
    /\ uart = k.uart
    /\ invoked = k.invoked
    /\ at_yield = k.at_yield
    /\ resumed = k.resumed
    /\ mode = 3
    /\ boot = "run"
    /\ n_ecalls = 0
    /\ n_syscalls = 0
    /\ trap_at = [p \in Procs |-> [pc |-> 0, regs |-> NoSnap]]
    /\ held = [p \in DOMAIN k.mem |-> 0]
    /\ last = NoCall
    /\ fs_call = call
    /\ fs_written = written

\* The kernel has booted, and either no call was made yet or process 0 has
\* created the file "a" and written a page of data to it.
InitFs ==
    \E k \in {Booted(FsPages)} :
        \/ InitBooted(k, NoFsCall, [fd \in Fds |-> NotWritten])
        \/ \E r \in {fs_open(k, RODATA)} :
              \E w \in {fs_write(r.k, r.ret, DATA, PAGE_SIZE)} :
                  InitBooted(w.k,
                             [NoFsCall EXCEPT !.op = "write", !.fd = r.ret, !.buf = DATA,
                                              !.n = PAGE_SIZE, !.ret = w.ret],
                             [fd \in Fds |->
                                 IF fd = r.ret
                                 THEN [valid |-> TRUE, creator |-> 0, by |-> 0,
                                       src |-> DATA, n |-> PAGE_SIZE]
                                 ELSE NotWritten])

\* The arguments the processes give: names, descriptors (the first and the
\* last are none of the table), addresses of data, counts.
FsNames == {Str(0), Str(1)}

FsFds == {0 - 1, 0, 1, MAX_INODES}

FsSources == {DATA}

FsCounts == {1, PAGE_SIZE, PAGE_SIZE + 1}

FsMaxes == {1, PAGE_SIZE}

\* The kernel state a call starts from.
K0 == [K EXCEPT !.uart = <<>>, !.invoked = <<>>]

\* The record of the call op that returned ret.
FsCalled(op, name, fd, buf, n, ret) ==
    [op |-> op, by |-> current_process, name |-> name, fd |-> fd, buf |-> buf, n |-> n,
     ret |-> ret, count |-> fs_call.count + 1, prev_op |-> fs_call.op,
     after_unlink |-> fs_call.op = "unlink" /\ fs_call.ret = 0 /\ fs_call.name = name]

FsUnchanged == UNCHANGED <<mode, boot, n_ecalls, n_syscalls, trap_at, held, last>>

\* The processes have calls left to make.
FsMore == fs_call.count < FsMaxCalls

\* fs_open(filename) with the name at address filename.
FsOpenAt(filename) ==
    \E r \in {fs_open(K0, filename)} :
        /\ SetK(r.k)
        /\ fs_call' = FsCalled("open", CString(mem, filename, MAX_FILENAME - 1), 0,
                               filename, 0, r.ret)
        /\ fs_written' = IF r.ret \in Fds /\ inode_table[r.ret].in_use = 0
                         THEN [fs_written EXCEPT ![r.ret] =
                                  [NotWritten EXCEPT !.creator = current_process]]
                         ELSE fs_written
        /\ FsUnchanged

FsOpen == FsMore /\ \E filename \in FsNames : FsOpenAt(filename)

FsClose ==
    /\ FsMore
    /\ \E fd \in FsFds :
        \E r \in {fs_close(K0, fd)} :
            /\ SetK(r.k)
            /\ fs_call' = FsCalled("close", <<>>, fd, 0, 0, r.ret)
            /\ UNCHANGED fs_written
            /\ FsUnchanged

FsRead ==
    /\ FsMore
    /\ \E fd \in FsFds, max \in FsMaxes :
        \E r \in {fs_read(K0, fd, BUF, max)} :
            /\ fd \notin Fds => max = 1
            /\ SetK(r.k)
            /\ fs_call' = FsCalled("read", <<>>, fd, BUF, max, r.ret)
            /\ UNCHANGED fs_written
            /\ FsUnchanged

FsWrite ==
    /\ FsMore
    /\ \E fd \in FsFds, data \in FsSources, len \in FsCounts :
        \E r \in {fs_write(K0, fd, data, len)} :
            /\ fd \notin Fds => len = 1
            /\ SetK(r.k)
            /\ fs_call' = FsCalled("write", <<>>, fd, data, len, r.ret)
            /\ fs_written' = IF r.ret >= 0
                             THEN [fs_written EXCEPT ![fd] =
                                      [valid |-> TRUE, creator |-> @.creator,
                                       by |-> current_process, src |-> data, n |-> len]]
                             ELSE fs_written
            /\ FsUnchanged

FsUnlink ==
    /\ FsMore
    /\ \E filename \in FsNames :
        \E r \in {fs_unlink(K0, filename)} :
            /\ SetK(r.k)
            /\ fs_call' = FsCalled("unlink", CString(mem, filename, MAX_FILENAME - 1), 0,
                                   filename, 0, r.ret)
            /\ fs_written' = [fd \in Fds |-> IF r.k.inode_table[fd].in_use = 1
                                             THEN fs_written[fd] ELSE NotWritten]
            /\ FsUnchanged

FsList ==
    /\ FsMore
    /\ SetK(fs_list(K0))
    /\ fs_call' = FsCalled("list", <<>>, 0, 0, 0, 0)
    /\ UNCHANGED fs_written
    /\ FsUnchanged

\* The running process yields to the other one.
FsYield ==
    /\ \E k \in {yield(K0)} : SetK(k)
    /\ UNCHANGED <<fs_call, fs_written>>
    /\ FsUnchanged

NextFs ==
    \/ FsOpen
    \/ FsClose
    \/ FsRead
    \/ FsWrite
    \/ FsUnlink
    \/ FsList
    \/ FsYield

SpecFs == InitFs /\ [][NextFs]_vars

\* ----------------------------------------------------- the inode table filled
\* The kernel has booted with a page for every inode, and a process opens
\* names: one it opened before, or the name after the one it opened last
\* (the names are taken in a round, starting with any).

InitCap == \E k \in {Booted(CapPages)} : InitBooted(k, NoFsCall, [fd \in Fds |-> NotWritten])

\* The names in use.
NamesInUse == {inode_table[i].filename : i \in {j \in Fds : inode_table[j].in_use = 1}}

\* The number of the name after the one in the highest slot in use, which
\* is the name the last new file was given.
NextName ==
    LET used == {i \in Fds : inode_table[i].in_use = 1}
        top  == CHOOSE i \in used : \A j \in used : j <= i
    IN  IF used = {} THEN 0
        ELSE (inode_table[top].filename[1] - 97 + 1) % NameCount

CapOpen ==
    /\ fs_call.count < CapMaxCalls
    /\ \E j \in 0..(NameCount - 1) :
        /\ \/ NamesInUse = {}
           \/ NameOf(j) \in NamesInUse
           \/ j = NextName
        /\ FsOpenAt(Str(j))

NextCap == CapOpen

SpecCap == InitCap /\ [][NextCap]_vars

\* ------------------------------------------------ fs_open without a free page
\* The kernel image leaves OomPages pages: the two stacks and the page of one
\* file; the opens that create a second file and more find the free list
\* empty.
InitOom == \E k \in {Booted(OomPages)} : InitBooted(k, NoFsCall, [fd \in Fds |-> NotWritten])

SpecOom == InitOom /\ [][NextCap]_vars

\* ---------------------------------------------------- allocator properties

AllocOps == {"alloc_page", "alloc_pages"}

\* The step is an allocator call of one of ops.
CallStep(ops) == last'.seq # last.seq /\ last'.op \in ops

HeldPages == {p \in DOMAIN held : held[p] > 0}

\* C1: under any sequence of alloc_page, alloc_pages and free_page calls that
\* frees only held pages, no page is held twice at the same time, and no held
\* page is on the free list.
C1_NoDoubleAllocation ==
    /\ \A p \in DOMAIN held : held[p] <= 1
    /\ \A i \in 1..Len(FreeList) : held[FreeList[i]] = 0

\* Two pages are held at once, the second one handed out after a free.
C1_Witness ==
    /\ Cardinality(HeldPages) >= 2
    /\ last.op = "alloc_page" /\ last.ret # 0
    /\ last.prev_op = "free_page" /\ last.prev_arg # 0

\* C7: the page a successful alloc_page returns is all zero when it returns.
C7_ZeroFilled ==
    (last.op \in AllocOps /\ last.ret # 0) => last.ret_zero

\* The page returned held a free-list link in its first word and a byte its
\* previous owner wrote at its end.
C7_Witness ==
    /\ last.op = "alloc_page" /\ last.ret # 0
    /\ last.prev_op = "free_page" /\ last.prev_arg = last.ret
    /\ last.link_before /\ last.tail_before
    /\ AllBytes(mem[last.ret], 0)

\* C8: alloc_page on an empty list returns 0 and changes nothing; on a list
\* that is not empty it does not return 0.
C8_EmptyAllocNoEffect ==
    [][CallStep({"alloc_page"}) =>
          IF free_page_list = NULL
          THEN last'.ret = 0 /\ UNCHANGED <<free_page_list, free_pages, total_pages, mem>>
          ELSE last'.ret # 0]_vars

\* alloc_page was called on an empty list of an allocator that has pages.
C8_Witness ==
    /\ last.op = "alloc_page" /\ last.head_before = NULL /\ last.ret = 0
    /\ total_pages > 0 /\ free_pages = 0

\* C9: free_page(0) changes neither the head, nor a link, nor the counter,
\* and returns after its diagnostic.
C9_FreeNullNoEffect ==
    [][(CallStep({"free_page"}) /\ last'.arg = 0) =>
          /\ UNCHANGED <<free_page_list, free_pages, total_pages, mem>>
          /\ last'.out = "null_free"]_vars

\* free_page(0) was called with pages on the free list.
C9_Witness ==
    /\ last.op = "free_page" /\ last.arg = 0
    /\ free_page_list # NULL /\ Len(FreeList) >= 2

\* C10: the alloc_page that follows free_page(a), a # 0, with no allocator
\* call in between, returns a and puts the free counter back to its value
\* before the free.
C10_LifoReuse ==
    (last.op = "alloc_page" /\ last.prev_op = "free_page" /\ last.prev_arg # 0) =>
        (last.ret = last.prev_arg /\ free_pages = last.prev_free)

\* A freed page came back from the next alloc_page while another page was
\* on the list behind it.
C10_Witness ==
    /\ last.op = "alloc_page" /\ last.prev_op = "free_page" /\ last.prev_arg # 0
    /\ last.ret = last.prev_arg
    /\ free_page_list # NULL

\* ------------------------------------------------------- kernel properties

\* The last step was a trap (only a trap prints while a process runs).
TrapTaken == boot = "run" /\ uart # <<>>

\* The last step was the trap of an exception, and its code.
ExceptionTaken == TrapTaken /\ mcause.interrupt = 0

Code == mcause.code % 64

\* The last step printed panic's banner.
Panicked == \E i \in DOMAIN uart : uart[i] = "!!! KERNEL PANIC !!!"

\* The step is an ecall's trap.
EcallStep == n_ecalls' = n_ecalls + 1

\* The step is a trap in which the dispatcher ran yield.
YieldStep == invoked' # <<>> /\ invoked'[1][1] = SYS_YIELD

\* The trap frame of the step's trap, where trap_vector pushed it.
FrameOf(sp) == sp - TRAP_FRAME

C3_RecoverableIffWhitelisted ==
    ExceptionTaken =>
        /\ Panicked <=> Code \notin {3, 8, 9, 11}
        /\ halted <=> Panicked

\* An exception of an unrecognized code has ended in panic.
C3_Witness == ExceptionTaken /\ Code = 17 /\ Panicked /\ halted

\* The last step was the trap of a fatal exception.
FatalTaken == ExceptionTaken /\ Code \notin {3, 8, 9, 11}

\* C4: once the trap of a fatal exception has been taken, nothing changes
\* any more: no output, no CSR or register, no allocator, PCB or inode
\* state.
C4_HaltedForever == [][FatalTaken => UNCHANGED vars]_vars

\* An illegal instruction has halted the hart while interrupts had been
\* enabled and a file existed.
C4_Witness ==
    /\ FatalTaken /\ Code = 2 /\ halted /\ Panicked
    /\ mpie
    /\ inode_table[0].in_use = 1

\* C5: when switch_context returns to a process that had called it, sp, ra
\* and s0..s11 are what they were at that call; and when the trap of that
\* process's yield then returns, they are what they were at its ecall.
C5_RoundTripRegisters ==
    resumed.valid =>
        /\ resumed.regs = at_yield[resumed.to].regs
        /\ (TrapTaken /\ ~halted /\ invoked # <<>> /\ invoked[1][1] = SYS_YIELD) =>
               /\ current_process = resumed.to
               /\ Snap(regs) = trap_at[resumed.to].regs

\* Process 0 is back from a yield with its own values in the registers,
\* after process 1 had put its values there.
C5_Witness ==
    /\ resumed.valid /\ resumed.to = 0
    /\ TrapTaken /\ ~halted /\ invoked # <<>> /\ invoked[1][1] = SYS_YIELD
    /\ regs.ra = UserRa(0)
    /\ \A i \in SRegs : regs.s[i] = UserValue(0, i)
    /\ \A i \in SRegs : at_yield[1].regs.s[i] = UserValue(1, i)

\* C6: process 0 runs first; the process whose code the hart executes
\* changes in a step exactly when the step is a yield, and then to the
\* other process.
C6_StrictAlternation ==
    [][/\ (boot # "run" /\ boot' = "run") => ProcAt(regs'.pc) = 0 /\ current_process' = 0
       /\ (boot = "run" /\ ~halted') =>
              /\ ProcAt(regs'.pc) = current_process'
              /\ YieldStep <=> current_process' # current_process
              /\ YieldStep => current_process' = 1 - current_process]_vars

\* Process 0 runs again after each process has yielded once.
C6_Witness ==
    /\ boot = "run" /\ ~halted
    /\ at_yield[0].valid /\ at_yield[1].valid
    /\ current_process = 0 /\ ProcAt(regs.pc) = 0

\* --------------------------------------------------- filesystem properties

\* The step is the call op of the filesystem.
FsStep(op) == fs_call'.count = fs_call.count + 1 /\ fs_call'.op = op

\* The n bytes at address a of memory m.
Bytes(m, a, n) == [i \in 0..(n - 1) |-> LoadByte(m, a + i)]

\* Bytes lo .. hi - 1 of page content p are those of q (pages of one
\* background are compared by the bytes that differ from it).
SamePart(p, q, lo, hi) ==
    IF p.fill = q.fill
    THEN [i \in {j \in DOMAIN p.d : j >= lo /\ j < hi} |-> p.d[i]]
         = [i \in {j \in DOMAIN q.d : j >= lo /\ j < hi} |-> q.d[i]]
    ELSE \A i \in lo..(hi - 1) : PageByte(p, i) = PageByte(q, i)

\* The n bytes at a1 of memory m1 are the n bytes at a2 of memory m2.
SameBytes(m1, a1, m2, a2, n) ==
    IF OffsetOf(a1) = 0 /\ OffsetOf(a2) = 0 /\ n <= PAGE_SIZE
    THEN SamePart(m1[a1], m2[a2], 0, n)
    ELSE Bytes(m1, a1, n) = Bytes(m2, a2, n)

\* The bytes of a1's page from offset n on are the same in m1 and m2.
SameRest(m1, m2, a1, n) == SamePart(m1[PageOf(a1)], m2[PageOf(a1)], OffsetOf(a1) + n, PAGE_SIZE)

\* C11: an fs_write of n <= 4096 bytes to a valid descriptor, followed
\* immediately by an fs_read of the same descriptor with max >= n, copies
\* exactly the n written bytes into the buffer (and leaves the rest of the
\* buffer as it was) and returns n.
C11_WriteReadRoundTrip ==
    [][(/\ fs_call.op = "write"
        /\ fd_valid(K, fs_call.fd)
        /\ fs_call.n <= MAX_FILE_SIZE
        /\ FsStep("read")
        /\ fs_call'.fd = fs_call.fd
        /\ fs_call'.n >= fs_call.n)
       => /\ fs_call'.ret = fs_call.n
          /\ SameBytes(mem', fs_call'.buf, mem, fs_call.buf, fs_call.n)
          /\ SameRest(mem', mem, fs_call'.buf, fs_call.n)]_vars

\* A read of a whole page came right after the write of a page of data, and
\* the buffer holds the first and the last byte written.
C11_Witness ==
    /\ fs_call.op = "read"
    /\ fs_call.prev_op = "write"
    /\ fs_call.n = PAGE_SIZE
    /\ fs_call.ret = PAGE_SIZE
    /\ LoadByte(mem, BUF) = 72
    /\ LoadByte(mem, BUF + PAGE_SIZE - 1) = 33

\* The file of descriptor i was created and last written by a process other
\* than the running one: a yield lies between that write and now.
FromOther(i) ==
    /\ fd_valid(K, i)
    /\ fs_written[i].valid
    /\ fs_written[i].creator = fs_written[i].by
    /\ fs_written[i].by # current_process

\* C12: a file one process created and wrote is found by the other
\* process's fs_open of its name (same descriptor, no new inode, no new
\* page), and the other process's fs_read after that open returns the
\* content and the length written, with no write in between.
C12_CrossProcessVisibility ==
    [][/\ FsStep("open") =>
            \A i \in Fds :
                (FromOther(i) /\ inode_table[i].filename = fs_call'.name)
                => /\ fs_call'.ret = i
                   /\ inode_table' = inode_table
                   /\ free_pages' = free_pages
                   /\ free_page_list' = free_page_list
                   /\ mem' = mem
       /\ (/\ FsStep("read")
           /\ fs_call.op = "open"
           /\ fs_call.ret = fs_call'.fd
           /\ FromOther(fs_call'.fd)
           /\ fs_written[fs_call'.fd].n <= MAX_FILE_SIZE
           /\ fs_call'.n >= fs_written[fs_call'.fd].n)
          => /\ fs_call'.ret = fs_written[fs_call'.fd].n
             /\ inode_table'[fs_call'.fd].size = fs_written[fs_call'.fd].n
             /\ SameBytes(mem', fs_call'.buf, mem, fs_written[fs_call'.fd].src, fs_call'.ret)]_vars

\* Process 1 has opened and read the page of data process 0 wrote to the
\* file it created.
C12_Witness ==
    /\ fs_call.op = "read"
    /\ fs_call.prev_op = "open"
    /\ fs_call.by = 1
    /\ fs_call.fd = 0
    /\ fs_call.ret = PAGE_SIZE
    /\ fs_written[0].valid /\ fs_written[0].creator = 0 /\ fs_written[0].by = 0
    /\ current_process = 1
    /\ LoadByte(mem, BUF) = 72
    /\ LoadByte(mem, BUF + PAGE_SIZE - 1) = 33

\* The descriptors in use.
InUse == {i \in Fds : inode_table[i].in_use = 1}

\* The allocator and the inode table are as they were, and so is RAM.
FsSame ==
    /\ inode_table' = inode_table
    /\ free_page_list' = free_page_list
    /\ free_pages' = free_pages
    /\ total_pages' = total_pages
    /\ mem' = mem

\* C13: from an empty inode table, each of 16 opens of pairwise distinct
\* names succeeds with a descriptor of 0..15 that no earlier open returned;
\* the 17th open of a further name fails (table full), allocates no page and
\* changes no inode.
C13_TableCapacity ==
    [][(FsStep("open") /\ fs_call'.name \notin NamesInUse)
       => IF Cardinality(InUse) < MAX_INODES
          THEN /\ fs_call'.ret \in Fds \ InUse
               /\ InUse' = InUse \cup {fs_call'.ret}
               /\ inode_table'[fs_call'.ret].filename = fs_call'.name
               /\ Cardinality(NamesInUse') = Cardinality(InUse')
               /\ free_pages' = free_pages - 1
          ELSE /\ fs_call'.ret = 0 - 1
               /\ FsSame]_vars

\* The 17th open, of a name that is none of the 16 in use, has failed.
C13_Witness ==
    /\ fs_call.op = "open"
    /\ fs_call.count = MAX_INODES + 1
    /\ fs_call.ret = 0 - 1
    /\ InUse = Fds
    /\ Cardinality(NamesInUse) = MAX_INODES
    /\ fs_call.name \notin NamesInUse

\* C14: fs_unlink of a name that no inode in use has returns failure and
\* leaves the inode table, RAM (every file's page) and the allocator's list
\* and counters as they were.
C14_UnlinkMissingNoEffect ==
    [][(FsStep("unlink") /\ fs_call'.name \notin NamesInUse)
       => /\ fs_call'.ret = 0 - 1
          /\ FsSame]_vars

\* An unlink of a name not in use has failed while a written file exists.
C14_Witness ==
    /\ fs_call.op = "unlink"
    /\ fs_call.ret = 0 - 1
    /\ fs_call.name \notin NamesInUse
    /\ InUse = {0}
    /\ fs_written[0].valid
    /\ inode_table[0].size = PAGE_SIZE

\* C15: fs_open of a name right after the fs_unlink of that name creates a
\* new inode of size 0, and an fs_read of it returns 0 and copies nothing,
\* whatever the deleted file held.
C15_UnlinkThenOpenIsEmpty ==
    [][/\ (FsStep("open") /\ fs_call'.after_unlink)
          => /\ fs_call'.ret \in Fds
             /\ fs_call'.name \notin NamesInUse
             /\ inode_table'[fs_call'.ret].in_use = 1
             /\ inode_table'[fs_call'.ret].filename = fs_call'.name
             /\ inode_table'[fs_call'.ret].size = 0
       /\ (/\ FsStep("read")
           /\ fs_call.op = "open"
           /\ fs_call.after_unlink
           /\ fs_call'.fd = fs_call.ret)
          => /\ fs_call'.ret = 0
             /\ mem' = mem]_vars

\* The file "a", which held a page of data, was unlinked and opened again:
\* the new inode has size 0.
C15_Witness ==
    /\ fs_call.op = "open"
    /\ fs_call.after_unlink
    /\ fs_call.count = 2
    /\ fs_call.name = NameOf(0)
    /\ fs_call.ret \in Fds
    /\ inode_table[fs_call.ret].in_use = 1
    /\ inode_table[fs_call.ret].size = 0

\* C18: fs_write(fd, buf, count) on a valid descriptor copies
\* min(count, 4096) bytes to the start of the file's page, sets the length to
\* that number and returns it; no byte outside the file's page, no other
\* inode and nothing of the allocator changes.
C18_WriteCappedAtPage ==
    [][(FsStep("write") /\ fd_valid(K, fs_call'.fd))
       => LET fd   == fs_call'.fd
              n    == Min(fs_call'.n, PAGE_SIZE)
              page == inode_table[fd].data_addr
          IN  /\ fs_call'.ret = n
              /\ inode_table' = [inode_table EXCEPT ![fd].size = n]
              /\ SameBytes(mem', page, mem, fs_call'.buf, n)
              /\ SameRest(mem', mem, page, n)
              /\ \A p \in DOMAIN mem \ {page} : mem'[p] = mem[p]
              /\ free_page_list' = free_page_list
              /\ free_pages' = free_pages]_vars

\* A write of 4097 bytes has returned 4096; the file is a page long and its
\* last byte is the 4096th byte of the data.
C18_Witness ==
    /\ fs_call.op = "write"
    /\ fs_call.n = PAGE_SIZE + 1
    /\ fs_call.ret = PAGE_SIZE
    /\ fd_valid(K, fs_call.fd)
    /\ inode_table[fs_call.fd].size = PAGE_SIZE
    /\ LoadByte(mem, inode_table[fs_call.fd].data_addr + PAGE_SIZE - 1) = 33

\* C19: fs_read(fd, buf, max) on a valid descriptor copies min(max, length)
\* bytes from the start of the file into the buffer, returns that number and
\* changes nothing else; a second read of the same file right after it
\* returns the same number and the same bytes.
C19_ReadFromStartNoCursor ==
    [][/\ (FsStep("read") /\ fd_valid(K, fs_call'.fd))
          => LET fd == fs_call'.fd
                 n  == Min(fs_call'.n, inode_table[fd].size)
             IN  /\ fs_call'.ret = n
                 /\ SameBytes(mem', fs_call'.buf, mem, inode_table[fd].data_addr, n)
                 /\ SameRest(mem', mem, fs_call'.buf, n)
                 /\ \A p \in DOMAIN mem \ {PageOf(fs_call'.buf)} : mem'[p] = mem[p]
                 /\ inode_table' = inode_table
                 /\ free_page_list' = free_page_list
                 /\ free_pages' = free_pages
       /\ (/\ FsStep("read")
           /\ fs_call.op = "read"
           /\ fd_valid(K, fs_call.fd)
           /\ fs_call'.fd = fs_call.fd
           /\ fs_call'.n = fs_call.n)
          => /\ fs_call'.ret = fs_call.ret
             /\ SameBytes(mem', fs_call'.buf, mem, fs_call.buf, fs_call.ret)]_vars

\* Two reads in a row, the second of a whole page.
C19_Witness ==
    /\ fs_call.op = "read"
    /\ fs_call.prev_op = "read"
    /\ fs_call.count = 2
    /\ fs_call.fd = 0
    /\ fs_call.ret = PAGE_SIZE
    /\ inode_table[0].size = PAGE_SIZE
    /\ LoadByte(mem, BUF + 1) = 105

\* C20: fs_open of a name an inode in use has returns that inode's index and
\* leaves the inode table, the free-page counter and list and RAM (the
\* file's content) as they were; a second open of the name returns the same
\* descriptor.
C20_OpenExistingNoEffect ==
    [][/\ FsStep("open") =>
            \A i \in InUse :
                inode_table[i].filename = fs_call'.name
                => /\ fs_call'.ret = i
                   /\ FsSame
       /\ (/\ FsStep("open")
           /\ fs_call.op = "open"
           /\ fs_call.ret \in Fds
           /\ fs_call'.name = fs_call.name)
          => fs_call'.ret = fs_call.ret]_vars

\* The written file "a" was opened twice in a row; it still holds its page
\* of data.
C20_Witness ==
    /\ fs_call.op = "open"
    /\ fs_call.prev_op = "open"
    /\ fs_call.name = NameOf(0)
    /\ fs_call.ret = 0
    /\ fs_written[0].valid
    /\ inode_table[0].size = PAGE_SIZE
    /\ LoadByte(mem, inode_table[0].data_addr + PAGE_SIZE - 1) = 33

\* ----------------------------------------------------- dispatcher properties

\* The step is an ecall whose call identifier is one of ids and from which
\* the hart returns.
SyscallOf(ids) == EcallStep /\ invoked' # <<>> /\ invoked'[1][1] \in ids /\ ~halted'

\* The values a system call gives for a failure.
FailureValues == {0 - 1, 0}

\* C16: a system call with an identifier outside 1..8 does not panic,
\* changes nothing of the allocator, the PCBs and the inodes, does not
\* switch process, resumes the caller after the ecall and leaves a failure
\* value in the caller's a0.
C16_UnknownSyscallFails ==
    [][(EcallStep /\ invoked' # <<>> /\ invoked'[1][1] \notin SYS_PUTS..SYS_LIST)
       => /\ ~halted'
          /\ free_page_list' = free_page_list
          /\ free_pages' = free_pages
          /\ total_pages' = total_pages
          /\ processes' = processes
          /\ inode_table' = inode_table
          /\ current_process' = current_process
          /\ regs'.pc = regs.pc + 4
          /\ regs'.a0 \in FailureValues]_vars

\* What the operation of the value-returning system call id returns, called
\* with arg0, arg1 and arg2 in the state before the step.
ResultOf(id, arg0, arg1, arg2) ==
    CASE id = SYS_OPEN   -> fs_open(K, arg0).ret
      [] id = SYS_CLOSE  -> fs_close(K, arg0).ret
      [] id = SYS_READ   -> fs_read(K, arg0, arg1, arg2).ret
      [] id = SYS_WRITE  -> fs_write(K, arg0, arg1, arg2).ret
      [] id = SYS_UNLINK -> fs_unlink(K, arg0).ret

\* C17: after a system call that returns a value (open, close, read, write,
\* unlink) the caller's a0 holds what the kernel operation returned.
C17_ResultStagedInA0 ==
    [][SyscallOf({SYS_OPEN, SYS_CLOSE, SYS_READ, SYS_WRITE, SYS_UNLINK})
       => regs'.a0 = ResultOf(invoked'[1][1], invoked'[1][2], invoked'[1][3], invoked'[1][4])]_vars

\* C21: fs_open fails only when the inode table has no free slot: an open of
\* a name no inode in use has, with at least one of the 16 slots free,
\* returns a descriptor that is valid afterwards, of a slot that was free,
\* whose inode is in use, has the name and has size 0; and an open that
\* fails found every slot in use and the name in none of them.
C21_OpenFailsOnlyWhenFull ==
    [][FsStep("open") =>
        /\ (fs_call'.name \notin NamesInUse /\ InUse # Fds)
           => /\ fs_call'.ret \in Fds \ InUse
              /\ fd_valid([inode_table |-> inode_table'], fs_call'.ret)
              /\ inode_table'[fs_call'.ret].in_use = 1
              /\ inode_table'[fs_call'.ret].filename = fs_call'.name
              /\ inode_table'[fs_call'.ret].size = 0
        /\ fs_call'.ret \notin Fds
           => /\ InUse = Fds
              /\ fs_call'.name \notin NamesInUse]_vars

\* The open of a 16th name has taken the last free slot: its inode is in use
\* and empty, and the table is full.
C21_Witness ==
    /\ fs_call.op = "open"
    /\ fs_call.count = MAX_INODES
    /\ fs_call.ret \in Fds
    /\ InUse = Fds
    /\ Cardinality(NamesInUse) = MAX_INODES
    /\ inode_table[fs_call.ret].filename = fs_call.name
    /\ inode_table[fs_call.ret].size = 0

\* C22: a descriptor is valid exactly when 0 <= fd < 16 and the slot is in
\* use. fs_read, fs_write and fs_close of any other descriptor (negative,
\* 16 or more, a slot never used, a slot unlinked) return failure, do not
\* halt, and leave the inode table, RAM, the free list and its counters and
\* the PCBs as they were; of a valid descriptor they do not fail.
C22_BadDescriptorFails ==
    [][(FsStep("read") \/ FsStep("write") \/ FsStep("close"))
       => LET fd == fs_call'.fd
              valid == 0 <= fd /\ fd < MAX_INODES /\ inode_table[fd].in_use = 1
          IN  /\ valid <=> fd_valid(K, fd)
              /\ valid => fs_call'.ret >= 0
              /\ ~valid => /\ fs_call'.ret = 0 - 1
                           /\ ~halted'
                           /\ FsSame
                           /\ processes' = processes
                           /\ current_process' = current_process]_vars

\* A read of the descriptor of a file that was just unlinked has failed;
\* the slot still holds the length of the deleted file.
C22_Witness ==
    /\ fs_call.op = "read"
    /\ fs_call.prev_op = "unlink"
    /\ fs_call.fd = 0
    /\ fs_call.ret = 0 - 1
    /\ inode_table[0].in_use = 0
    /\ inode_table[0].size = PAGE_SIZE
    /\ ~halted

\* The pages on the free list.
FreeSet == {FreeList[i] : i \in 1..Len(FreeList)}

\* The stack pages of the processes.
StackPages == {processes[p].stack_addr : p \in Procs}

\* C23: in every reachable state the data page of each inode in use is a
\* page of RAM that is not on the free list, is not the data page of another
\* inode in use and is not the stack page of a process, and the length of
\* each inode in use is at most 4096.
C23_InodePagesOwned ==
    \A i \in InUse :
        /\ inode_table[i].data_addr \in DOMAIN mem
        /\ inode_table[i].data_addr \notin FreeSet
        /\ inode_table[i].data_addr \notin StackPages
        /\ \A j \in InUse \ {i} : inode_table[j].data_addr # inode_table[i].data_addr
        /\ inode_table[i].size <= MAX_FILE_SIZE

\* Two files are in use, one of them a page long and the other one created
\* in the slot, and on the page, of a file that was unlinked.
C23_Witness ==
    /\ InUse = {0, 1}
    /\ inode_table[0].size = PAGE_SIZE
    /\ fs_call.op = "open"
    /\ fs_call.after_unlink
    /\ fs_call.ret = 1
    /\ FreeSet = {}

\* C24: fs_unlink of a name an inode in use has returns 0 and frees that
\* inode's data page: the free-page counter rises by one and the page is the
\* new head of the free list, in front of the old list. The slot's in-use
\* flag is cleared and nothing else of the inode table changes, no page but
\* the freed one changes (so every other file keeps its content), and the
\* old descriptor is not valid afterwards.
C24_UnlinkFreesThePage ==
    [][(FsStep("unlink") /\ fs_call'.name \in NamesInUse)
       => LET i    == CHOOSE j \in InUse : inode_table[j].filename = fs_call'.name
              page == inode_table[i].data_addr
          IN  /\ fs_call'.ret = 0
              /\ free_pages' = free_pages + 1
              /\ total_pages' = total_pages
              /\ free_page_list' = page
              /\ FreeList' = <<page>> \o FreeList
              /\ inode_table' = [inode_table EXCEPT ![i].in_use = 0]
              /\ \A p \in DOMAIN mem \ {page} : mem'[p] = mem[p]
              /\ ~fd_valid([inode_table |-> inode_table'], i)]_vars

\* The file "b" was unlinked while the file "a" holds a page of data: the
\* page of "b" heads the free list and "a" is as it was.
C24_Witness ==
    /\ fs_call.op = "unlink"
    /\ fs_call.name = NameOf(1)
    /\ fs_call.ret = 0
    /\ InUse = {0}
    /\ inode_table[1].in_use = 0
    /\ free_page_list = inode_table[1].data_addr
    /\ free_page_list # NULL
    /\ inode_table[0].size = PAGE_SIZE
    /\ LoadByte(mem, inode_table[0].data_addr + PAGE_SIZE - 1) = 33

\* C25: alloc_pages(count) with count > 1 prints its warning and does what
\* one alloc_page does: on a list that is not empty it returns the head,
\* takes exactly that page off the list and lowers the free counter by
\* exactly one; on an empty list it returns 0 and changes nothing. With
\* count = 1 it is alloc_page, with no warning.
C25_AllocPagesIsOnePage ==
    [][CallStep({"alloc_pages"}) =>
          \A r \in {alloc_page(Alloc)} :
              /\ last'.ret = r.ret
              /\ free_page_list' = r.a.free_page_list
              /\ free_pages' = r.a.free_pages
              /\ total_pages' = r.a.total_pages
              /\ mem' = r.a.mem
              /\ IF free_page_list = NULL
                 THEN /\ last'.ret = 0
                      /\ UNCHANGED <<free_page_list, free_pages, total_pages, mem>>
                 ELSE /\ last'.ret = free_page_list
                      /\ FreeList' = Tail(FreeList)
                      /\ free_pages' = free_pages - 1
              /\ IF last'.arg > 1
                 THEN last'.out \in {"warn", "warn_oom"}
                 ELSE last'.out = r.out]_vars

\* alloc_pages(2) has returned the head of a list of at least two pages, and
\* the page after it is still on the list.
C25_Witness ==
    /\ last.op = "alloc_pages" /\ last.arg = 2
    /\ last.ret # 0 /\ last.ret = last.head_before
    /\ last.out = "warn"
    /\ free_pages = last.free_before - 1
    /\ free_page_list # NULL

\* C26: right after pages_init the free list is every whole page from the
\* first page-aligned address at or after the kernel image's end up to the
\* top of RAM, each once, in ascending order from the head, the last page's
\* link is null, and total_pages = free_pages = the number of pages on the
\* list.
C26_InitListsEveryPage ==
    last.op = "pages_init" =>
        LET ram_end == KERNEL_BASE + RAM_SIZE
            start == CHOOSE a \in PagesBetween(KERNEL_BASE, ram_end) \cup {ram_end} :
                         a >= last.arg /\ a - last.arg < PAGE_SIZE
            n == Cardinality(PagesBetween(start, ram_end))
        IN  /\ free_page_list = start
            /\ FreeList = [i \in 1..n |-> start + (i - 1) * PAGE_SIZE]
            /\ LoadWord(mem, start + (n - 1) * PAGE_SIZE) = NULL
            /\ total_pages = n
            /\ free_pages = n

\* pages_init was given a kernel end one byte into a page: the list starts
\* at the next page and runs to the last page of RAM.
C26_Witness ==
    /\ last.op = "pages_init"
    /\ last.arg % PAGE_SIZE = 1
    /\ free_page_list = last.arg - 1 + PAGE_SIZE
    /\ Len(FreeList) >= 2
    /\ FreeList[Len(FreeList)] = KERNEL_BASE + RAM_SIZE - PAGE_SIZE
    /\ free_pages = Len(FreeList)

\* ------------------------------------------------------------ boot properties

\* The steps of kernel_main, each with the one that follows it.
BootOrder ==
    {<<"clear_bss", "trap_init">>, <<"trap_init", "pages_init">>,
     <<"pages_init", "processes_init">>, <<"processes_init", "start_scheduler">>,
     <<"start_scheduler", "run">>}

\* Both PCBs are initialized: each has its own stack page.
PcbsInitialized(procs) ==
    /\ \A p \in Procs : procs[p].stack_addr \in DOMAIN mem
    /\ \A p, q \in Procs : p # q => procs[p].stack_addr # procs[q].stack_addr

C28_OnlyYieldSwitches ==
    [][/\ (boot = "run" /\ current_process' # current_process) => YieldStep
       /\ SyscallOf((SYS_PUTS..SYS_LIST) \ {SYS_YIELD})
          => /\ current_process' = current_process
             /\ processes' = processes
             /\ regs'.pc = regs.pc + 4
             /\ regs'.sp = regs.sp
       /\ boot' = "run"
          => /\ free_pages' = Len(FreeList')
             /\ free_pages' + MAX_PROCESSES + Cardinality(InUse') = total_pages']_vars

\* Process 1, which runs since process 0 yielded, has opened a file and
\* goes on itself.
C28_Witness ==
    /\ TrapTaken /\ ~halted
    /\ invoked # <<>> /\ invoked[1][1] = SYS_OPEN
    /\ current_process = 1
    /\ InUse = {0}
    /\ ProcAt(regs.pc) = 1

\* ------------------------------------------------------------ trap properties

\* The step is the trap of an exception with this code, taken while the
\* processes run.
ExceptionStep(code) ==
    boot = "run" /\ uart' # <<>> /\ mcause'.interrupt = 0 /\ mcause'.code % 64 = code

\* The step is the trap of an interrupt, taken while the processes run.
InterruptStep == boot = "run" /\ uart' # <<>> /\ mcause'.interrupt = 1

\* The allocator, the PCBs and the inodes are as they were.
KernelSame ==
    /\ free_page_list' = free_page_list
    /\ free_pages' = free_pages
    /\ total_pages' = total_pages
    /\ FreeList' = FreeList
    /\ processes' = processes
    /\ current_process' = current_process
    /\ inode_table' = inode_table

\* C29: the trap of a breakpoint (exception code 3) is recoverable and
\* leaves the saved program counter alone: mepc after the handler is the
\* address of the ebreak, where the process resumes; the dispatcher is not
\* called, the hart does not panic, and the allocator, the PCBs and the
\* inodes are unchanged.
C29_BreakpointKeepsMepc ==
    [][ExceptionStep(3)
       => /\ mepc' = regs.pc
          /\ regs'.pc = regs.pc
          /\ regs'.sp = regs.sp
          /\ invoked' = <<>>
          /\ n_syscalls' = n_syscalls
          /\ ~halted'
          /\ ~Panicked'
          /\ KernelSame]_vars

\* A breakpoint in the loop of process 0 was taken and the process is back
\* at the ebreak.
C29_Witness ==
    /\ ExceptionTaken /\ Code = 3
    /\ ~halted
    /\ mepc = regs.pc
    /\ regs.pc \in Body(0)
    /\ current_process = 0

EnteredAtEntry(r, p, procs) ==
    /\ r.pc = Entry(p)
    /\ r.ra = Entry(p)
    /\ \A i \in SRegs : r.s[i] = 0
    /\ r.sp = procs[p].stack_addr + PAGE_SIZE

C32_PcbWrittenBySwitchOnly ==
    [][/\ (boot = "run" /\ ~YieldStep) => processes' = processes
       /\ (boot = "run" /\ YieldStep)
          => /\ processes' = [processes EXCEPT ![current_process].sp =
                                                   processes'[current_process].sp]
             /\ PageOf(processes'[current_process].sp) = processes[current_process].stack_addr
             /\ LoadWord(mem', processes'[current_process].sp) = RA_YIELD
       /\ (boot # "run" /\ processes' # processes)
          => boot \in {"clear_bss", "processes_init"}]_vars

\* Process 1 has taken a breakpoint after process 0 yielded; the PCB of
\* process 0 holds the stack pointer the yield saved.
C32_Witness ==
    /\ ExceptionTaken /\ Code = 3 /\ ~halted
    /\ current_process = 1
    /\ at_yield[0].valid
    /\ processes[0].sp # processes[0].stack_addr + PAGE_SIZE - SWITCH_FRAME
    /\ PageOf(processes[0].sp) = processes[0].stack_addr

\* The hart executes the code of process p.
Runs(p) == boot = "run" /\ ~halted /\ ProcAt(regs.pc) = p

\* The last step was the trap of a yield.
YieldTaken == TrapTaken /\ invoked # <<>> /\ invoked[1][1] = SYS_YIELD

\* C33: a yield never stops the hart, and nobody starves: in a run in which
\* the hart is never halted by a fatal exception and yields are made again
\* and again, each of the two processes executes its code again and again.
C33_NoStarvation ==
    /\ [](YieldTaken => ~halted)
    /\ ([]~halted /\ []<>YieldTaken) => \A p \in Procs : []<>Runs(p)

\* Process 1, which has yielded before, runs again: process 0 has just
\* yielded and the switch resumed process 1 behind its own yield.
C33_Witness ==
    /\ Runs(1)
    /\ YieldTaken
    /\ at_yield[0].valid /\ at_yield[1].valid
    /\ resumed.valid /\ resumed.to = 1

\* C34: the trap handler writes mepc only for the exception codes 8, 9 and
\* 11: after the trap of any other exception, and of any interrupt, mepc is
\* the address of the trapping instruction, as it was at trap entry.
C34_MepcWrittenForEcallsOnly ==
    [][(/\ boot = "run"
        /\ uart' # <<>>
        /\ ~(mcause'.interrupt = 0 /\ mcause'.code % 64 \in {8, 9, 11}))
       => mepc' = regs.pc]_vars

\* ---------------------------------------------------- allocator properties

\* The step is a call of mem_test.
MemTestStep == last' # last /\ last'.op = "mem_test"

\* C35: mem_test leaves the allocator as it found it: with two pages or more
\* on the free list it allocates the first two, page 1 still holds the test
\* value once page 2 is allocated (PASS), and freeing page 2 and then page 1
\* restores the head, the order of the whole list and the counter; no page
\* in use is touched.
C35_MemTestRestores ==
    [][(MemTestStep /\ Len(FreeList) >= 2)
       => /\ last'.out = "pass"
          /\ last'.ret = FreeList[1]
          /\ free_page_list' = free_page_list
          /\ FreeList' = FreeList
          /\ free_pages' = free_pages
          /\ total_pages' = total_pages
          /\ held' = held
          /\ \A p \in DOMAIN held : held[p] > 0 => mem'[p] = mem[p]]_vars

\* mem_test has passed on a list of two pages or more, whose order an
\* earlier free had changed from that of pages_init.
C35_Witness ==
    /\ last.op = "mem_test" /\ last.out = "pass"
    /\ last.prev_op = "free_page"
    /\ Len(FreeList) >= 2
    /\ FreeList[1] > FreeList[2]
    /\ last.ret = FreeList[1]

\* C36: a process that yielded resumes behind its own ecall.  The trap of a
\* yield that switches back to a process which had yielded ends in that
\* process's handler: the mepc it writes, and the pc after mret, is the
\* address that process's trap was taken at plus 4, the epc its handler
\* captured at entry, although mepc held another address when the yield
\* was made: the traps of the other process had overwritten it.
C36_ResumeBehindOwnEcall ==
    [][(boot = "run" /\ YieldStep /\ at_yield[1 - current_process].valid)
       => \A q \in {1 - current_process} :
             /\ ~halted'
             /\ current_process' = q
             /\ mepc' = trap_at[q].pc + 4
             /\ regs'.pc = trap_at[q].pc + 4
             /\ ProcAt(regs'.pc) = q
             /\ mepc # trap_at[q].pc + 4
             /\ regs.pc # trap_at[q].pc]_vars

\* Process 1 has yielded and process 0 is behind its own yield again; the
\* trap of process 1 was taken at another address than that of process 0.
C36_Witness ==
    /\ YieldTaken
    /\ ~halted
    /\ resumed.valid /\ resumed.to = 0
    /\ current_process = 0
    /\ regs.pc = trap_at[0].pc + 4
    /\ mepc = regs.pc
    /\ trap_at[1].pc # trap_at[0].pc
    /\ ProcAt(trap_at[1].pc) = 1

\* C37: the allocator's invariant, under any sequence of alloc_page,
\* alloc_pages and free_page calls that frees only held pages: the free list
\* is a chain of distinct pages of RAM that ends in the null link, free_pages
\* is its length, 0 <= free_pages <= total_pages, and the free pages and the
\* held pages together are the total_pages pages of the pool.
C37_AllocatorInvariant ==
    \A list \in {FreeList} : \A free \in {{list[i] : i \in 1..Len(list)}} :
        /\ Cardinality(free) = Len(list)
        /\ free \subseteq DOMAIN mem
        /\ NULL \notin free
        /\ IF Len(list) = 0 THEN free_page_list = NULL
           ELSE /\ free_page_list = list[1]
                /\ LoadWord(mem, list[Len(list)]) = NULL
        /\ free_pages = Len(list)
        /\ 0 <= free_pages /\ free_pages <= total_pages
        /\ free_pages + Cardinality(HeldPages) = total_pages
        /\ HeldPages \cap free = {}

\* Pages are held and pages are free, after frees that changed the order of
\* the list.
C37_Witness ==
    /\ Cardinality(HeldPages) >= 1
    /\ Len(FreeList) >= 2
    /\ FreeList[1] > FreeList[2]
    /\ last.op = "free_page" /\ last.arg # 0
    /\ free_pages + Cardinality(HeldPages) = total_pages

\* C38: pages_init over a pool of no page (total_pages = 0) returns with an
\* empty free list and free_pages = 0 and has stored no link outside RAM,
\* and the first alloc_page after it fails with 0.
C38_EmptyPoolInit ==
    /\ (last.op = "pages_init" /\ total_pages = 0)
          => /\ last.out # "fault"
             /\ free_page_list = NULL
             /\ free_pages = 0
    /\ (last.op = "alloc_page" /\ last.prev_op = "pages_init" /\ total_pages = 0)
          => last.ret = 0

\* ----------------------------------------------------- filesystem properties

\* C39: every inode in use has a data page, a page of RAM that alloc_page
\* returned, also when fs_open has to create a file and the free list is
\* empty: no inode is in use with the data address 0, so that no read and no
\* write of a file touches address 0.
C39_InUseInodeHasPage ==
    \A i \in Fds :
        inode_table[i].in_use = 1
            => /\ inode_table[i].data_addr # NULL
               /\ inode_table[i].data_addr \in DOMAIN mem

\* C40: whatever open, write, read, close and unlink calls the two processes
\* have made, no two inodes in use have the same file name: the inode that
\* open(name) and unlink(name) act on is determined by the name.
C40_NamesUnique ==
    \A i \in InUse : \A j \in InUse :
        inode_table[i].filename = inode_table[j].filename => i = j

\* Two files are in use and the last call opened the name of the first one
\* again, which gave its descriptor.
C40_Witness ==
    /\ InUse = {0, 1}
    /\ inode_table[0].filename # inode_table[1].filename
    /\ fs_call.op = "open"
    /\ fs_call.name = inode_table[0].filename
    /\ fs_call.ret = 0
    /\ fs_call.prev_op = "open"

====
